---- MODULE Spec2Model ----
(***************************************************************************)
(* MarkJSCanvasUI: the widget manager (control sequence, focus index,      *)
(* modal stack, toast list, escape callback), the Menu / Toggle / Panel    *)
(* controls, the Modal with its button Menu, and the host timers that the  *)
(* library registers with setTimeout.                                      *)
(*                                                                         *)
(* Indices are 0-based as in the JavaScript source; TLA+ sequences are     *)
(* 1-based, so controls[focusIndex + 1] is the focused control.            *)
(***************************************************************************)
EXTENDS Integers, Sequences, FiniteSets, TLC

VARIABLES
    controls,    \* MarkJSCanvasUI.controls : sequence of control ids
    focusIndex,  \* MarkJSCanvasUI.focusIndex
    modals,      \* MarkJSCanvasUI.modals : sequence of modal ids, top = last
    toasts,      \* MarkJSCanvasUI.toasts : sequence of toast ids
    onEscape,    \* MarkJSCanvasUI.onEscape is set (TRUE) or null (FALSE)
    cs,          \* mutable fields of every control object, by control id
    ms,          \* fields of every live Modal object, by modal id
    timers,      \* pending setTimeout registrations, in registration order
    texts,       \* MarkJSCanvasUI.texts : sequence of overlay text ids
    images,      \* MarkJSCanvasUI.images : sequence of overlay image ids
    options,     \* MarkJSCanvasUI.options : the background configuration
    theme,       \* MarkJSCanvasUI.theme
    controlOptions, \* Control.options of every control object, by control id
    cursor,         \* canvas.style.cursor, "" until updateCursor first sets it
    last         \* the operation that produced this state and what it invoked

vars == <<controls, focusIndex, modals, toasts, onEscape, cs, ms, timers, texts, images,
          options, theme, controlOptions, cursor, last>>

----------------------------------------------------------------------------
(* Bounds of the model *)

MaxControls == 3
MaxModals == 2
MaxToasts == 3
MaxTimers == 2
MaxTexts == 1
MaxImages == 1

(* Program constants *)

pressedDuration == 300
buttonHeight == 50
buttonWidth == 150
buttonSpacing == 20

(* The drawing surface handed to the manager; one line of message text *)
Canvas == [width |-> 800, height |-> 615]
lineCount == 1

(* The manager's background configuration and theme after construction with *)
(* no options.  An absent property is "undefined"; of the theme's keys the  *)
(* model keeps the control and Panel colours and the key setTheme copies to *)
(* the options.                                                             *)
OptionsInit ==
    [backgroundColor |-> "#1a1a1a", backgroundGradient |-> "null",
     gradientDirection |-> "undefined", noBackground |-> "undefined"]

ThemeInit ==
    [controlColor |-> "#4CAF50", controlSurfaceColor |-> "#333333",
     controlTextColor |-> "#ffffff", controlBorderColor |-> "#666666",
     panelSurfaceColor |-> "#2a2a2a", panelBorderColor |-> "#4CAF50",
     backgroundColor |-> "undefined"]

\* the options a Control starts with, before the caller's are spread over them
HardcodedDefaults ==
    [controlColor |-> "#4CAF50", controlSurfaceColor |-> "#333333",
     controlTextColor |-> "#ffffff", controlBorderColor |-> "#666666",
     panelSurfaceColor |-> "#2a2a2a", panelBorderColor |-> "#4CAF50"]

\* the style keys applyTheme resolves, of those the model keeps
StyleKeys == {"controlColor", "controlSurfaceColor", "controlTextColor", "textColor",
              "controlBorderColor", "panelSurfaceColor", "panelBorderColor"}

\* an options object without properties
NoOptions == [k \in {} |-> "undefined"]

\* o[k] in JavaScript: undefined when o has no such property
Get(o, k) == IF k \in DOMAIN o THEN o[k] ELSE "undefined"

\* a value that || passes over
Falsy(v) == v \in {"undefined", "null", ""}

\* { ...a, ...b }: every own property of b, undefined ones too, over a's
Spread(a, b) == [k \in DOMAIN a \cup DOMAIN b |-> IF k \in DOMAIN b THEN b[k] ELSE a[k]]

----------------------------------------------------------------------------
(* Small helpers *)

Min(a, b) == IF a <= b THEN a ELSE b
Max(a, b) == IF a >= b THEN a ELSE b

Range(s) == {s[i] : i \in 1..Len(s)}

\* Array.prototype.indexOf, 0-based, -1 when absent
IndexOf(s, v) ==
    IF \E i \in 1..Len(s) : s[i] = v
    THEN (CHOOSE i \in 1..Len(s) : s[i] = v /\ \A j \in 1..(i - 1) : s[j] # v) - 1
    ELSE -1

\* Array.prototype.splice(index, 1), index 0-based
Splice(s, index) == [i \in 1..(Len(s) - 1) |-> IF i <= index THEN s[i] ELSE s[i + 1]]

----------------------------------------------------------------------------
(* Strings are sequences of characters, so that toLowerCase is computed *)

UpperChars == <<"A","B","C","D","E","F","G","H","I","J","K","L","M",
                "N","O","P","Q","R","S","T","U","V","W","X","Y","Z">>
LowerChars == <<"a","b","c","d","e","f","g","h","i","j","k","l","m",
                "n","o","p","q","r","s","t","u","v","w","x","y","z">>

LowerChar(c) ==
    IF \E i \in 1..Len(UpperChars) : UpperChars[i] = c
    THEN LowerChars[CHOOSE i \in 1..Len(UpperChars) : UpperChars[i] = c]
    ELSE c

toLowerCase(str) == [i \in 1..Len(str) |-> LowerChar(str[i])]

sOK     == <<"O","K">>
sYes    == <<"Y","e","s">>
sNo     == <<"N","o">>
sNoLow  == <<"n","o">>
sExit   == <<"E","x","i","t">>
sClose  == <<"C","l","o","s","e">>
sCancel == <<"C","A","N","C","E","L">>
sNull   == <<>>     \* options.escapeButtonLabel || null

----------------------------------------------------------------------------
(* The control objects the host application constructs.  Geometry and items *)
(* are set by the constructors and never change; the mutable fields are in  *)
(* cs.                                                                      *)

\* cMenuV  = new Menu(0, 0, [a, b])            vertical, 200x50 items, no gap
\* cToggle = new Toggle(150, 40, label, false, cb, {height: 55})
\* cPanel  = new Panel(0, 0)
\* cMenuH  = new Menu(0, 80, [a, b], {orientation: 'horizontal', width: 100, gap: 20}),
\*           items without callbacks
\* cToggleN = new Toggle(300, 60, label, false, null, {height: 55})
cMenuV   == 1
cToggle  == 2
cPanel   == 3
cMenuH   == 4
cToggleN == 5
\* cSlider = new Slider(100, 300, 1, 10, 3, 4, label, cb)     300x80
cSlider  == 6
\* cRadio = new Radio(400, 300, [a, b, c], 1, label, cb)     vertical, 250x45 items
cRadio   == 7
\* cCarousel = new Carousel(100, 400, [a, b, c], 2, label, cb)   horizontal, 250x60
cCarousel == 8
\* cPanelC = new Panel(50, 50, {panelSurfaceColor: '#112233', borderColor: '#abcdef'})
cPanelC  == 9
\* cToggleC = new Toggle(0, 200, label, false, null, {controlColor: '#ff00ff'})
cToggleC == 10
\* new TextInput(0, 540, placeholder): 300 x 50 by default
cTextInput == 11

ControlIds == {cMenuV, cToggle, cPanel, cMenuH, cToggleN, cSlider, cRadio, cCarousel,
               cPanelC, cToggleC, cTextInput}

\* Menu constructor: per-item size, orientation, gap and the total bounding box
MenuCtor(x, y, items, orientation, itemWidth, itemHeight, gap) ==
    [kind |-> "Menu", x |-> x, y |-> y,
     width  |-> IF orientation = "horizontal"
                THEN Len(items) * itemWidth + (Len(items) - 1) * gap ELSE itemWidth,
     height |-> IF orientation = "horizontal"
                THEN itemHeight ELSE Len(items) * itemHeight + (Len(items) - 1) * gap,
     itemWidth |-> itemWidth, itemHeight |-> itemHeight, items |-> items,
     orientation |-> orientation, gap |-> gap]

\* an item's callback is "user" (caller-supplied), "none" (absent),
\* "wrap" (the Modal's wrapper around a button)
Item(label, callback) == [label |-> label, callback |-> callback]

\* Radio constructor: per-item size, the height kept for the label and the
\* total bounding box
RadioCtor(x, y, items, selectedIndex, label, callback, orientation, gap) ==
    LET width == 250
        height == 45
        labelHeight == IF label # "" THEN 30 ELSE 0
    IN [kind |-> "Radio", x |-> x, y |-> y,
        width  |-> IF orientation = "horizontal"
                   THEN Len(items) * width + (Len(items) - 1) * gap ELSE width,
        height |-> IF orientation = "horizontal"
                   THEN height + labelHeight
                   ELSE Len(items) * height + (Len(items) - 1) * gap + labelHeight,
        itemWidth |-> width, itemHeight |-> height, items |-> items,
        selectedIndex |-> selectedIndex, labelHeight |-> labelHeight,
        callback |-> callback, orientation |-> orientation, gap |-> gap]

\* Carousel constructor
CarouselCtor(x, y, items, selectedIndex, callback, orientation) ==
    [kind |-> "Carousel", x |-> x, y |-> y, width |-> 250, height |-> 60,
     items |-> items, selectedIndex |-> selectedIndex, callback |-> callback,
     orientation |-> orientation, arrowSize |-> 12, padding |-> 10]

ControlDef(c) ==
    CASE c = cMenuV  -> MenuCtor(0, 0, <<Item("a", "user"), Item("b", "user")>>,
                                 "vertical", 200, 50, 0)
      [] c = cToggle -> [kind |-> "Toggle", x |-> 150, y |-> 40, width |-> 250,
                         height |-> 55, callback |-> "user", padding |-> 10]
      [] c = cToggleN -> [kind |-> "Toggle", x |-> 300, y |-> 60, width |-> 250,
                          height |-> 55, callback |-> "none", padding |-> 10]
      [] c = cSlider -> [kind |-> "Slider", x |-> 100, y |-> 300, width |-> 300,
                         height |-> 80, min |-> 1, max |-> 10, value |-> 3, step |-> 4,
                         callback |-> "user", padding |-> 10]
      [] c = cPanel  -> [kind |-> "Panel", x |-> 0, y |-> 0, width |-> 500, height |-> 500]
      [] c = cPanelC -> [kind |-> "Panel", x |-> 50, y |-> 50, width |-> 500, height |-> 500]
      [] c = cToggleC -> [kind |-> "Toggle", x |-> 0, y |-> 200, width |-> 250,
                          height |-> 50, callback |-> "none", padding |-> 10]
      [] c = cMenuH  -> MenuCtor(0, 80, <<Item("a", "none"), Item("b", "none")>>,
                                 "horizontal", 100, 50, 20)
      [] c = cRadio  -> RadioCtor(400, 300, <<"a", "b", "c">>, 1, "label", "user",
                                  "vertical", 0)
      [] c = cCarousel -> CarouselCtor(100, 400, <<"a", "b", "c">>, 2, "user",
                                       "horizontal")
      [] c = cTextInput -> [kind |-> "TextInput", x |-> 0, y |-> 540, width |-> 300,
                            height |-> 50, padding |-> 10]

\* the mutable fields right after construction
MenuInit == [kind |-> "Menu", selectedIndex |-> 0, pressed |-> FALSE, pressedTime |-> 0]

ControlInit(c) ==
    CASE ControlDef(c).kind = "Menu"   -> MenuInit
      [] ControlDef(c).kind = "Toggle" -> [kind |-> "Toggle", value |-> FALSE]
      [] ControlDef(c).kind = "Panel"  -> [kind |-> "Panel"]
      [] ControlDef(c).kind = "Slider" -> [kind |-> "Slider", value |-> ControlDef(c).value]
      [] ControlDef(c).kind = "Radio" ->
            [kind |-> "Radio", selectedIndex |-> ControlDef(c).selectedIndex]
      [] ControlDef(c).kind = "Carousel" ->
            [kind |-> "Carousel", selectedIndex |-> ControlDef(c).selectedIndex]
      [] ControlDef(c).kind = "TextInput" ->
            [kind |-> "TextInput", value |-> <<>>, cursorPos |-> 0,
             cursorVisible |-> TRUE, cursorBlinkTime |-> 0]

\* which optional handlers a control class defines
HasHandleClick(kind)   ==
    kind \in {"Menu", "Toggle", "Slider", "Radio", "Carousel", "TextInput"}
HasHandleKeyDown(kind) ==
    kind \in {"Menu", "Toggle", "Slider", "Radio", "Carousel", "TextInput"}
HasActivate(kind)      == kind \in {"Menu", "Toggle"}
HasGamepadLeft(kind)   == kind \in {"Menu", "Radio", "Carousel"}
HasGamepadRight(kind)  == kind \in {"Menu", "Radio", "Carousel"}
HasGamepadAxis(kind)   == kind \in {"Slider"}
HasUpdate(kind)        == kind \in {"Menu", "TextInput"}

\* Panel constructor: the options it hands to Control, with both panel
\* colours as own properties; themeColors are the colours of options.manager's
\* theme, NoOptions when the caller gave no manager
PanelOptions(o, themeColors) ==
    Spread(o, [panelSurfaceColor |->
                   IF ~Falsy(Get(o, "panelSurfaceColor")) THEN o.panelSurfaceColor
                   ELSE Get(themeColors, "panelSurfaceColor"),
               panelBorderColor |->
                   IF ~Falsy(Get(o, "panelBorderColor")) THEN o.panelBorderColor
                   ELSE Get(themeColors, "panelBorderColor")])

\* the style options the caller passed to the control's constructor
callerOptions(c) ==
    CASE c = cPanelC -> [panelSurfaceColor |-> "#112233", borderColor |-> "#abcdef"]
      [] c = cToggleC -> [controlColor |-> "#ff00ff"]
      [] OTHER -> NoOptions

\* Control._rawOptions: the options the class's constructor handed to Control
rawOptions(c) ==
    IF ControlDef(c).kind = "Panel" THEN PanelOptions(callerOptions(c), NoOptions)
    ELSE callerOptions(c)

\* Control constructor: the hardcoded defaults with the caller's options
\* spread over them
ControlOptions(raw) == Spread(HardcodedDefaults, raw)

\* applyTheme reading the theme the manager was constructed with
applyTheme_InitialTheme(th, raw) ==
    Spread([k \in StyleKeys |->
               IF k = "textColor" THEN ThemeInit.controlTextColor ELSE ThemeInit[k]],
           raw)

\* Control.applyTheme: the theme's values with the raw options spread over them
applyTheme(th, raw) ==
    Spread([k \in StyleKeys |-> IF k = "textColor" THEN th.controlTextColor ELSE th[k]],
           raw)

\* the options of every control when the controls in attached have been
\* added under the initial theme and the others are newly constructed
ControlOptionsInit(attached) ==
    [c \in ControlIds |-> IF c \in attached THEN applyTheme(ThemeInit, rawOptions(c))
                          ELSE ControlOptions(rawOptions(c))]

\* Panel.draw: the fill and the border colour
PanelDraw(o) ==
    [fillStyle |-> IF ~Falsy(Get(o, "backgroundColor")) THEN o.backgroundColor
                   ELSE IF ~Falsy(Get(o, "panelSurfaceColor")) THEN o.panelSurfaceColor
                   ELSE Get(o, "controlSurfaceColor"),
     strokeStyle |-> IF ~Falsy(Get(o, "borderColor")) THEN o.borderColor
                     ELSE IF ~Falsy(Get(o, "panelBorderColor")) THEN o.panelBorderColor
                     ELSE Get(o, "controlBorderColor")]

\* Control.containsPoint, overridden by Panel to return false
containsPoint(d, x, y) ==
    IF d.kind = "Panel" THEN FALSE
    ELSE x >= d.x /\ x <= d.x + d.width /\ y >= d.y /\ y <= d.y + d.height

----------------------------------------------------------------------------
(* Menu *)

getItemBounds(d, index) ==
    IF d.orientation = "horizontal"
    THEN [x |-> d.x + index * (d.itemWidth + d.gap), y |-> d.y,
          width |-> d.itemWidth, height |-> d.itemHeight]
    ELSE [x |-> d.x, y |-> d.y + index * (d.itemHeight + d.gap),
          width |-> d.itemWidth, height |-> d.itemHeight]

InBounds(b, x, y) ==
    x >= b.x /\ x <= b.x + b.width /\ y >= b.y /\ y <= b.y + b.height

\* the indices of the items whose bounds contain the point
ItemsAt(d, x, y) == {i \in 0..(Len(d.items) - 1) : InBounds(getItemBounds(d, i), x, y)}

MenuIsOverInteractiveArea(d, x, y) == ItemsAt(d, x, y) # {}

\* handleClick's loop running from the last item down
MenuClickedItem_Highest(d, x, y) ==
    IF ItemsAt(d, x, y) = {} THEN -1
    ELSE CHOOSE i \in ItemsAt(d, x, y) : \A j \in ItemsAt(d, x, y) : i >= j

\* the index the loop of Menu.handleClick stops at, -1 when it runs to the end
MenuClickedItem(d, x, y) ==
    IF ItemsAt(d, x, y) = {} THEN -1
    ELSE CHOOSE i \in ItemsAt(d, x, y) : \A j \in ItemsAt(d, x, y) : i <= j

\* A handler's result: the new mutable fields, and the deferred calls it
\* registers with setTimeout.  A deferred call names the item it will invoke:
\* the index captured by the closure (click), or -1 when the closure reads
\* this.selectedIndex when it runs (Enter/Space, activate).
MenuHandleClick(d, st, x, y) ==
    LET i == MenuClickedItem(d, x, y) IN
    IF i = -1 THEN [st |-> st, sched |-> <<>>]
    ELSE [st |-> [st EXCEPT !.selectedIndex = i, !.pressed = TRUE, !.pressedTime = 0],
          sched |-> IF d.items[i + 1].callback # "none" THEN <<i>> ELSE <<>>]

MenuPressCurrent(d, st) ==
    [st |-> [st EXCEPT !.pressed = TRUE, !.pressedTime = 0],
     sched |-> IF d.items[st.selectedIndex + 1].callback # "none" THEN <<-1>> ELSE <<>>]

MenuSelectPrevious(d, st) ==
    [st EXCEPT !.selectedIndex = (st.selectedIndex - 1 + Len(d.items)) % Len(d.items)]

MenuSelectNext(d, st) ==
    [st EXCEPT !.selectedIndex = (st.selectedIndex + 1) % Len(d.items)]

MenuHandleKeyDown(d, st, e) ==
    IF e.key \in {"ArrowUp", "ArrowLeft"}
    THEN [st |-> MenuSelectPrevious(d, st), sched |-> <<>>]
    ELSE IF e.key \in {"ArrowDown", "ArrowRight"}
    THEN [st |-> MenuSelectNext(d, st), sched |-> <<>>]
    ELSE IF e.key \in {"Enter", " "}
    THEN MenuPressCurrent(d, st)
    ELSE [st |-> st, sched |-> <<>>]

MenuActivate(d, st) == MenuPressCurrent(d, st)

\* update ending the press only once the accumulated time exceeds the duration
MenuUpdate_Strict(st, deltaTime) ==
    IF st.pressed
    THEN IF st.pressedTime + deltaTime > pressedDuration
         THEN [st EXCEPT !.pressed = FALSE, !.pressedTime = 0]
         ELSE [st EXCEPT !.pressedTime = st.pressedTime + deltaTime]
    ELSE st

MenuUpdate(st, deltaTime) ==
    IF st.pressed
    THEN IF st.pressedTime + deltaTime >= pressedDuration
         THEN [st EXCEPT !.pressed = FALSE, !.pressedTime = 0]
         ELSE [st EXCEPT !.pressedTime = st.pressedTime + deltaTime]
    ELSE st

----------------------------------------------------------------------------
(* Toggle *)

\* Toggle.toggle: flips the value; the callback, when set, is called with it
ToggleToggle(d, st) ==
    [st |-> [st EXCEPT !.value = ~st.value],
     calls |-> IF d.callback # "none" THEN <<"callback">> ELSE <<>>]

ToggleHandleKeyDown(d, st, e) ==
    IF e.key \in {"Enter", " "} THEN ToggleToggle(d, st)
    ELSE [st |-> st, calls |-> <<>>]

\* Toggle.isOverInteractiveArea: the 50x25 switch at the right of the control
ToggleIsOverInteractiveArea(d, x, y) ==
    LET switchWidth == 50
        switchHeight == 25
        switchX == d.x + d.width - switchWidth - d.padding
        switchY == d.y + (d.height - switchHeight) \div 2
    IN x >= switchX /\ x <= switchX + switchWidth /\ y >= switchY /\ y <= switchY + switchHeight

----------------------------------------------------------------------------
(* Slider.  Values, bounds and steps are integers here; a quotient is kept  *)
(* as numerator and denominator until Math.round is taken.                  *)

\* Math.round(num / den) for den > 0: the nearest integer, halves upwards
Round(num, den) == (2 * num + den) \div (2 * den)

\* A handler's result: the new fields and the values the callback was
\* called with
SliderResult(d, st, value, notify) ==
    [st |-> [st EXCEPT !.value = value],
     calls |-> IF notify /\ d.callback # "none" THEN <<value>> ELSE <<>>]

\* handleKeyDown stepping without Math.max / Math.min
SliderHandleKeyDown_NoClamp(d, st, e) ==
    IF e.key = "ArrowLeft"
    THEN SliderResult(d, st, st.value - d.step, TRUE)
    ELSE IF e.key = "ArrowRight"
    THEN SliderResult(d, st, st.value + d.step, TRUE)
    ELSE SliderResult(d, st, st.value, FALSE)

SliderHandleKeyDown(d, st, e) ==
    IF e.key = "ArrowLeft"
    THEN SliderResult(d, st, Max(d.min, st.value - d.step), TRUE)
    ELSE IF e.key = "ArrowRight"
    THEN SliderResult(d, st, Min(d.max, st.value + d.step), TRUE)
    ELSE SliderResult(d, st, st.value, FALSE)

SliderHandleGamepadAxis(d, st, direction) ==
    IF direction < 0
    THEN SliderResult(d, st, Max(d.min, st.value - d.step), TRUE)
    ELSE SliderResult(d, st, Min(d.max, st.value + d.step), TRUE)

\* the value Slider.updateValueFromX computes from x
SliderValueFromX(d, x) ==
    LET sliderX == d.x + d.padding
        sliderWidth == d.width - d.padding * 2
        \* percent = percentNum / sliderWidth
        percentNum == Max(0, Min(sliderWidth, x - sliderX))
        \* min + percent * (max - min) = rawNum / sliderWidth
        rawNum == d.min * sliderWidth + percentNum * (d.max - d.min)
        rounded == Round(rawNum, sliderWidth * d.step) * d.step
    IN Max(d.min, Min(d.max, rounded))

\* updateValueFromX calling the callback whether or not the value changed
SliderUpdateValueFromX_Always(d, st, x) ==
    SliderResult(d, st, SliderValueFromX(d, x), TRUE)

SliderUpdateValueFromX(d, st, x) ==
    LET newValue == SliderValueFromX(d, x) IN
    IF newValue # st.value
    THEN SliderResult(d, st, newValue, TRUE)
    ELSE SliderResult(d, st, st.value, FALSE)

SliderHandleClick(d, st, x, y) == SliderUpdateValueFromX(d, st, x)

----------------------------------------------------------------------------
(* Radio and Carousel.  A handler's result carries the new fields and the   *)
(* argument lists the callback was called with: (selectedIndex,             *)
(* items[selectedIndex]).                                                   *)

SelectArgs(d, selectedIndex) ==
    [index |-> selectedIndex, item |-> d.items[selectedIndex + 1]]

\* the selection moves to selectedIndex and the callback, if any, is called
SelectResult(d, st, selectedIndex) ==
    [st |-> [st EXCEPT !.selectedIndex = selectedIndex],
     calls |-> IF d.callback # "none" THEN <<SelectArgs(d, selectedIndex)>> ELSE <<>>]

SelectNone(st) == [st |-> st, calls |-> <<>>]

RadioGetItemBounds(d, index) ==
    IF d.orientation = "horizontal"
    THEN [x |-> d.x + index * (d.itemWidth + d.gap), y |-> d.y + d.labelHeight,
          width |-> d.itemWidth, height |-> d.itemHeight]
    ELSE [x |-> d.x, y |-> d.y + d.labelHeight + index * (d.itemHeight + d.gap),
          width |-> d.itemWidth, height |-> d.itemHeight]

containsPointInBounds(x, y, bounds) ==
    /\ x >= bounds.x /\ x <= bounds.x + bounds.width
    /\ y >= bounds.y /\ y <= bounds.y + bounds.height

\* Radio.handleClick: the first item whose bounds contain the point
RadioHandleClick(d, st, x, y) ==
    LET hit == {i \in 0..(Len(d.items) - 1) :
                   containsPointInBounds(x, y, RadioGetItemBounds(d, i))}
    IN IF hit = {} THEN SelectNone(st)
       ELSE SelectResult(d, st, CHOOSE i \in hit : \A j \in hit : i <= j)

RadioHandleGamepadLeft(d, st) ==
    SelectResult(d, st, (st.selectedIndex - 1 + Len(d.items)) % Len(d.items))

RadioHandleGamepadRight(d, st) ==
    SelectResult(d, st, (st.selectedIndex + 1) % Len(d.items))

RadioHandleKeyDown(d, st, e) ==
    LET isVertical == d.orientation = "vertical"
        prevKey == IF isVertical THEN "ArrowUp" ELSE "ArrowLeft"
        nextKey == IF isVertical THEN "ArrowDown" ELSE "ArrowRight"
    IN IF e.key = prevKey
       THEN SelectResult(d, st, (st.selectedIndex - 1 + Len(d.items)) % Len(d.items))
       ELSE IF e.key = nextKey
       THEN SelectResult(d, st, (st.selectedIndex + 1) % Len(d.items))
       ELSE SelectNone(st)

\* Carousel.getArrowBounds: previous is left/up, next is right/down
getArrowBounds(d) ==
    IF d.orientation = "horizontal"
    THEN [previous |-> [x |-> d.x + d.padding, y |-> d.y,
                        width |-> d.arrowSize * 2, height |-> d.height],
          next |-> [x |-> d.x + d.width - d.padding - d.arrowSize * 2, y |-> d.y,
                    width |-> d.arrowSize * 2, height |-> d.height]]
    ELSE [previous |-> [x |-> d.x, y |-> d.y + d.padding,
                        width |-> d.width, height |-> d.arrowSize * 2],
          next |-> [x |-> d.x, y |-> d.y + d.height - d.padding - d.arrowSize * 2,
                    width |-> d.width, height |-> d.arrowSize * 2]]

CarouselSelectPrevious(d, st) ==
    SelectResult(d, st, (st.selectedIndex - 1 + Len(d.items)) % Len(d.items))

\* selectNext calling the callback with the index it left
CarouselSelectNext_OldIndex(d, st) ==
    [st |-> [st EXCEPT !.selectedIndex = (st.selectedIndex + 1) % Len(d.items)],
     calls |-> <<SelectArgs(d, st.selectedIndex)>>]

CarouselSelectNext(d, st) ==
    SelectResult(d, st, (st.selectedIndex + 1) % Len(d.items))

CarouselHandleClick(d, st, x, y) ==
    LET arrows == getArrowBounds(d) IN
    IF containsPointInBounds(x, y, arrows.previous) THEN CarouselSelectPrevious(d, st)
    ELSE IF containsPointInBounds(x, y, arrows.next) THEN CarouselSelectNext(d, st)
    ELSE SelectNone(st)

CarouselHandleKeyDown(d, st, e) ==
    LET prevKey == IF d.orientation = "horizontal" THEN "ArrowLeft" ELSE "ArrowUp"
        nextKey == IF d.orientation = "horizontal" THEN "ArrowRight" ELSE "ArrowDown"
    IN IF e.key = prevKey THEN CarouselSelectPrevious(d, st)
       ELSE IF e.key = nextKey THEN CarouselSelectNext(d, st)
       ELSE SelectNone(st)

CarouselHandleGamepadLeft(d, st) == CarouselSelectPrevious(d, st)

CarouselHandleGamepadRight(d, st) == CarouselSelectNext(d, st)

----------------------------------------------------------------------------
(* Modal *)

\* Modal constructor: the button list (a single OK button that closes the
\* modal when the caller gave none), the escape label, the centred box and
\* the horizontal button Menu whose items wrap the buttons
\* the Modal constructor keeping an empty button list as it is
ModalButtons_NoDefault(buttons) == buttons

ModalButtons(buttons) ==
    IF Len(buttons) > 0 THEN buttons ELSE <<Item(sOK, "close")>>

ModalBox ==
    LET width  == Min(600, (Canvas.width * 8) \div 10)
        height == Max(200, Min(60 + (lineCount * 25 + 40) + 90, (Canvas.height * 8) \div 10))
    IN [x |-> (Canvas.width - width) \div 2, y |-> (Canvas.height - height) \div 2,
        width |-> width, height |-> height]

ModalMenuDef(buttons) ==
    LET totalButtonWidth == Len(buttons) * buttonWidth + (Len(buttons) - 1) * buttonSpacing
        buttonsX == ModalBox.x + (ModalBox.width - totalButtonWidth) \div 2
        buttonsY == ModalBox.y + ModalBox.height - buttonHeight - 20
    IN MenuCtor(buttonsX, buttonsY,
                [i \in 1..Len(buttons) |-> Item(buttons[i].label, "wrap")],
                "horizontal", buttonWidth, buttonHeight, buttonSpacing)

ModalCtor(buttons, escapeButtonLabel) ==
    [buttons |-> ModalButtons(buttons),
     escapeButtonLabel |-> escapeButtonLabel,
     buttonMenu |-> MenuInit]

NoModal == [buttons |-> <<>>, escapeButtonLabel |-> sNull, buttonMenu |-> MenuInit]

\* Array.prototype.find over the buttons: 0-based index of the first button
\* whose lower-cased label is in the given set, -1 for undefined
FindButton(buttons, lowered) ==
    LET hits == {i \in 1..Len(buttons) : toLowerCase(buttons[i].label) \in lowered} IN
    IF hits = {} THEN -1 ELSE (CHOOSE i \in hits : \A j \in hits : i <= j) - 1

ExitLabels == {toLowerCase(sExit), toLowerCase(sClose), toLowerCase(sCancel)}

\* EscapeButton comparing the labels as written, without lower-casing
EscapeButton_CaseSensitive(mo) ==
    LET wanted == IF mo.escapeButtonLabel # sNull THEN {mo.escapeButtonLabel}
                  ELSE {sExit, sClose, sCancel}
        hits == {i \in 1..Len(mo.buttons) : mo.buttons[i].label \in wanted}
    IN IF hits = {} THEN -1 ELSE (CHOOSE i \in hits : \A j \in hits : i <= j) - 1

\* the button Modal.handleKeyDown resolves Escape to
EscapeButton(mo) ==
    IF mo.escapeButtonLabel # sNull
    THEN FindButton(mo.buttons, {toLowerCase(mo.escapeButtonLabel)})
    ELSE FindButton(mo.buttons, ExitLabels)

\* the button Modal.handleGamepadButton resolves button 1 to
GamepadExitButton(mo) == FindButton(mo.buttons, ExitLabels)

\* A modal handler's result: the button menu's new fields, the deferred calls
\* registered, the button callbacks invoked directly (0-based button indices)
\* and whether this.close() ran.
ModalResult(menu, sched, calls, close) ==
    [menu |-> menu, sched |-> sched, calls |-> calls, close |-> close]

\* escapeBtn && escapeBtn.callback ? escapeBtn.callback() ; this.close()
ModalInvokeAndClose(mo, btn) ==
    ModalResult(mo.buttonMenu, <<>>,
                IF btn >= 0 /\ mo.buttons[btn + 1].callback # "none" THEN <<btn>> ELSE <<>>,
                TRUE)

ModalHandleClick(mo, x, y) ==
    LET d == ModalMenuDef(mo.buttons) IN
    IF MenuIsOverInteractiveArea(d, x, y)
    THEN LET r == MenuHandleClick(d, mo.buttonMenu, x, y)
         IN ModalResult(r.st, r.sched, <<>>, FALSE)
    ELSE ModalResult(mo.buttonMenu, <<>>, <<>>, FALSE)

ModalHandleKeyDown(mo, e) ==
    IF e.key = "Escape"
    THEN ModalInvokeAndClose(mo, EscapeButton(mo))
    ELSE LET r == MenuHandleKeyDown(ModalMenuDef(mo.buttons), mo.buttonMenu, e)
         IN ModalResult(r.st, r.sched, <<>>, FALSE)

ModalHandleGamepadButton(mo, buttonIndex) ==
    LET d == ModalMenuDef(mo.buttons) IN
    IF buttonIndex = 1
    THEN ModalInvokeAndClose(mo, GamepadExitButton(mo))
    ELSE IF buttonIndex = 0
    THEN LET r == MenuActivate(d, mo.buttonMenu) IN ModalResult(r.st, r.sched, <<>>, FALSE)
    ELSE IF buttonIndex = 14
    THEN ModalResult(MenuSelectPrevious(d, mo.buttonMenu), <<>>, <<>>, FALSE)
    ELSE IF buttonIndex = 15
    THEN ModalResult(MenuSelectNext(d, mo.buttonMenu), <<>>, <<>>, FALSE)
    ELSE ModalResult(mo.buttonMenu, <<>>, <<>>, FALSE)

----------------------------------------------------------------------------
(* MarkJSCanvasUI: what one operation does to the manager's state.  An      *)
(* operation's effect is a record of the fields it may change, the deferred *)
(* calls it registers (sched), the callbacks and manager calls it makes, in *)
(* order (calls), and the handlers it dispatches to (dispatch).             *)

Call(cb, owner, index) == [cb |-> cb, owner |-> owner, index |-> index]
Disp(h, on, id) == [h |-> h, on |-> on, id |-> id]
\* Timer registering the call with no delay
Timer_Immediate(on, id, item, delay) ==
    [on |-> on, id |-> id, item |-> item, delay |-> delay, remaining |-> 0, age |-> 0,
     upd |-> 0, selected |-> item]

\* A setTimeout registration.  selected records the menu's selectedIndex at
\* the moment of registration (history only; the closure does not hold it).
Timer(on, id, item, delay) ==
    [on |-> on, id |-> id, item |-> item, delay |-> delay, remaining |-> delay, age |-> 0,
     upd |-> 0, selected |-> item]

Same == [focusIndex |-> focusIndex, cs |-> cs, ms |-> ms, modals |-> modals,
         toasts |-> toasts, sched |-> <<>>, calls |-> <<>>, dispatch |-> <<>>]

\* JavaScript's %: the result has the sign of the dividend
JSMod(a, b) == IF a >= 0 THEN a % b ELSE -((-a) % b)

focusNext(fi, n) == IF n = 0 THEN fi ELSE JSMod(fi + 1, n)

\* focusPrevious without the "+ length" before the remainder
focusPrevious_NoAdd(fi, n) == IF n = 0 THEN fi ELSE JSMod(fi - 1, n)

focusPrevious(fi, n) == IF n = 0 THEN fi ELSE JSMod(fi - 1 + n, n)

\* closeModal splicing at the index indexOf returned, found or not:
\* splice(-1, 1) removes the last element
closeModal_SpliceAlways(mods, modal) ==
    LET index == IndexOf(mods, modal) IN
    IF index > -1 THEN Splice(mods, index)
    ELSE IF Len(mods) > 0 THEN SubSeq(mods, 1, Len(mods) - 1) ELSE mods

closeModal(mods, modal) ==
    LET index == IndexOf(mods, modal) IN
    IF index > -1 THEN Splice(mods, index) ELSE mods

\* TopModal taking the oldest modal of the stack
TopModal_Bottom == modals[1]

TopModal == modals[Len(modals)]

\* the calls a button's own callback amounts to: a caller-supplied callback is
\* opaque; the OK button of a modal created without buttons calls this.close()
ButtonCalls(m, btn) ==
    LET cb == ms[m].buttons[btn + 1].callback IN
    IF cb = "user" THEN <<Call("button", m, btn)>>
    ELSE IF cb = "close" THEN <<Call("closeModal", m, btn)>>
    ELSE <<>>

\* the top modal handles the event
ToModal(mr, h) ==
    LET m == TopModal
        direct == IF Len(mr.calls) > 0 THEN ButtonCalls(m, mr.calls[1]) ELSE <<>>
        closes == IF mr.close THEN <<Call("closeModal", m, -1)>> ELSE <<>>
    IN [Same EXCEPT
          !.ms = [ms EXCEPT ![m].buttonMenu = mr.menu],
          !.modals = IF mr.close \/ (\E k \in 1..Len(direct) : direct[k].cb = "closeModal")
                     THEN closeModal(modals, m) ELSE modals,
          !.sched = [k \in 1..Len(mr.sched) |->
                        [Timer("modal", m, mr.sched[k], pressedDuration)
                            EXCEPT !.selected = mr.menu.selectedIndex]],
          !.calls = direct \o closes,
          !.dispatch = <<Disp(h, "modal", m)>>]

\* a control's handler, by class; the result carries the new fields, the
\* deferred calls and the arguments of the callback invocations
(* TextInput.  The value is the sequence of its characters, each a string   *)
(* of length 1 as a character key's e.key is.                               *)

\* String.prototype.slice(from, to) for 0 <= from, to
slice(v, from, to) == SubSeq(v, from + 1, Min(to, Len(v)))

\* an undefined modifier flag is falsy
Modifier(e, k) == k \in DOMAIN e /\ e[k]

TextInputHandleClick(st, x, y) == [st EXCEPT !.cursorPos = Len(st.value)]

\* the character branch putting the key after the character at cursorPos
TextInputInsert_After(st, key) ==
    [st EXCEPT !.value = slice(st.value, 0, st.cursorPos + 1) \o <<key>>
                         \o slice(st.value, st.cursorPos + 1, Len(st.value)),
               !.cursorPos = st.cursorPos + 1]

\* value.slice(0, cursorPos) + e.key + value.slice(cursorPos); cursorPos++
TextInputInsert(st, key) ==
    [st EXCEPT !.value = slice(st.value, 0, st.cursorPos) \o <<key>>
                         \o slice(st.value, st.cursorPos, Len(st.value)),
               !.cursorPos = st.cursorPos + 1]

TextInputHandleKeyDown(st, e) ==
    LET edited ==
          IF e.key = "Backspace"
          THEN IF st.cursorPos > 0
               THEN [st EXCEPT !.value = slice(st.value, 0, st.cursorPos - 1)
                                         \o slice(st.value, st.cursorPos, Len(st.value)),
                               !.cursorPos = st.cursorPos - 1]
               ELSE st
          ELSE IF e.key = "Delete"
          THEN IF st.cursorPos < Len(st.value)
               THEN [st EXCEPT !.value = slice(st.value, 0, st.cursorPos)
                                         \o slice(st.value, st.cursorPos + 1, Len(st.value))]
               ELSE st
          ELSE IF e.key = "ArrowLeft"
          THEN [st EXCEPT !.cursorPos = Max(0, st.cursorPos - 1)]
          ELSE IF e.key = "ArrowRight"
          THEN [st EXCEPT !.cursorPos = Min(Len(st.value), st.cursorPos + 1)]
          ELSE IF e.key = "Home"
          THEN [st EXCEPT !.cursorPos = 0]
          ELSE IF e.key = "End"
          THEN [st EXCEPT !.cursorPos = Len(st.value)]
          ELSE IF Len(e.key) = 1 /\ ~Modifier(e, "ctrlKey") /\ ~Modifier(e, "metaKey")
          THEN TextInputInsert(st, e.key)
          ELSE st
    IN [edited EXCEPT !.cursorVisible = TRUE, !.cursorBlinkTime = 0]

TextInputUpdate(st, deltaTime) ==
    IF st.cursorBlinkTime + deltaTime >= 500
    THEN [st EXCEPT !.cursorVisible = ~st.cursorVisible, !.cursorBlinkTime = 0]
    ELSE [st EXCEPT !.cursorBlinkTime = st.cursorBlinkTime + deltaTime]

----------------------------------------------------------------------------
ControlResult(st, sched, calls) == [st |-> st, sched |-> sched, calls |-> calls]

BoolArg(b) == IF b THEN 1 ELSE 0

ControlHandleKeyDown(c, e) ==
    LET d == ControlDef(c) IN
    IF d.kind = "Menu"
    THEN LET r == MenuHandleKeyDown(d, cs[c], e) IN ControlResult(r.st, r.sched, <<>>)
    ELSE IF d.kind = "Slider"
    THEN LET r == SliderHandleKeyDown(d, cs[c], e) IN ControlResult(r.st, <<>>, r.calls)
    ELSE IF d.kind = "Radio"
    THEN LET r == RadioHandleKeyDown(d, cs[c], e) IN ControlResult(r.st, <<>>, r.calls)
    ELSE IF d.kind = "Carousel"
    THEN LET r == CarouselHandleKeyDown(d, cs[c], e) IN ControlResult(r.st, <<>>, r.calls)
    ELSE IF d.kind = "TextInput"
    THEN ControlResult(TextInputHandleKeyDown(cs[c], e), <<>>, <<>>)
    ELSE LET r == ToggleHandleKeyDown(d, cs[c], e)
         IN ControlResult(r.st, <<>>, [k \in 1..Len(r.calls) |-> BoolArg(r.st.value)])

ControlHandleClick(c, x, y) ==
    LET d == ControlDef(c) IN
    IF d.kind = "Menu"
    THEN LET r == MenuHandleClick(d, cs[c], x, y) IN ControlResult(r.st, r.sched, <<>>)
    ELSE IF d.kind = "Slider"
    THEN LET r == SliderHandleClick(d, cs[c], x, y) IN ControlResult(r.st, <<>>, r.calls)
    ELSE IF d.kind = "Radio"
    THEN LET r == RadioHandleClick(d, cs[c], x, y) IN ControlResult(r.st, <<>>, r.calls)
    ELSE IF d.kind = "Carousel"
    THEN LET r == CarouselHandleClick(d, cs[c], x, y) IN ControlResult(r.st, <<>>, r.calls)
    ELSE IF d.kind = "TextInput"
    THEN ControlResult(TextInputHandleClick(cs[c], x, y), <<>>, <<>>)
    ELSE LET r == ToggleToggle(d, cs[c])
         IN ControlResult(r.st, <<>>, [k \in 1..Len(r.calls) |-> BoolArg(r.st.value)])

ControlActivate(c) ==
    LET d == ControlDef(c) IN
    IF d.kind = "Menu"
    THEN LET r == MenuActivate(d, cs[c]) IN ControlResult(r.st, r.sched, <<>>)
    ELSE LET r == ToggleToggle(d, cs[c])
         IN ControlResult(r.st, <<>>, [k \in 1..Len(r.calls) |-> BoolArg(r.st.value)])

\* ControlGamepadAxis passing the direction with the wrong sign
ControlGamepadAxis_Inverted(c, direction) ==
    LET r == SliderHandleGamepadAxis(ControlDef(c), cs[c], -direction)
    IN ControlResult(r.st, <<>>, r.calls)

ControlGamepadAxis(c, direction) ==
    LET r == SliderHandleGamepadAxis(ControlDef(c), cs[c], direction)
    IN ControlResult(r.st, <<>>, r.calls)

ControlGamepadLeft(c) ==
    LET d == ControlDef(c) IN
    IF d.kind = "Radio"
    THEN LET r == RadioHandleGamepadLeft(d, cs[c]) IN ControlResult(r.st, <<>>, r.calls)
    ELSE IF d.kind = "Carousel"
    THEN LET r == CarouselHandleGamepadLeft(d, cs[c]) IN ControlResult(r.st, <<>>, r.calls)
    ELSE ControlResult(MenuSelectPrevious(d, cs[c]), <<>>, <<>>)

ControlGamepadRight(c) ==
    LET d == ControlDef(c) IN
    IF d.kind = "Radio"
    THEN LET r == RadioHandleGamepadRight(d, cs[c]) IN ControlResult(r.st, <<>>, r.calls)
    ELSE IF d.kind = "Carousel"
    THEN LET r == CarouselHandleGamepadRight(d, cs[c]) IN ControlResult(r.st, <<>>, r.calls)
    ELSE ControlResult(MenuSelectNext(d, cs[c]), <<>>, <<>>)

\* control c handles the event
ToControl(c, cr, h) ==
    [Same EXCEPT
       !.cs = [cs EXCEPT ![c] = cr.st],
       !.sched = [k \in 1..Len(cr.sched) |->
                     [Timer("control", c, cr.sched[k], pressedDuration)
                         EXCEPT !.selected = cr.st.selectedIndex]],
       !.calls = [k \in 1..Len(cr.calls) |-> Call("callback", c, cr.calls[k])],
       !.dispatch = <<Disp(h, "control", c)>>]

FocusInRange == focusIndex >= 0 /\ focusIndex < Len(controls)
Focused == controls[focusIndex + 1]
EscapeCalls == IF onEscape THEN <<Call("onEscape", 0, 0)>> ELSE <<>>

\* onKeyDown without the Tab branch: Tab goes on to the focused control
onKeyDown_TabToControl(e) ==
    IF e.key = "Escape"
    THEN IF Len(modals) > 0
         THEN ToModal(ModalHandleKeyDown(ms[TopModal], e), "handleKeyDown")
         ELSE [Same EXCEPT !.calls = EscapeCalls]
    ELSE IF Len(modals) > 0
    THEN ToModal(ModalHandleKeyDown(ms[TopModal], e), "handleKeyDown")
    ELSE IF FocusInRange /\ HasHandleKeyDown(ControlDef(Focused).kind)
    THEN ToControl(Focused, ControlHandleKeyDown(Focused, e), "handleKeyDown")
    ELSE Same

onKeyDown(e) ==
    IF e.key = "Escape"
    THEN IF Len(modals) > 0
         THEN ToModal(ModalHandleKeyDown(ms[TopModal], e), "handleKeyDown")
         ELSE [Same EXCEPT !.calls = EscapeCalls]
    ELSE IF Len(modals) > 0
    THEN ToModal(ModalHandleKeyDown(ms[TopModal], e), "handleKeyDown")
    ELSE IF e.key = "Tab"
    THEN [Same EXCEPT !.focusIndex = IF e.shiftKey
                                     THEN focusPrevious(focusIndex, Len(controls))
                                     ELSE focusNext(focusIndex, Len(controls))]
    ELSE IF FocusInRange /\ HasHandleKeyDown(ControlDef(Focused).kind)
    THEN ToControl(Focused, ControlHandleKeyDown(Focused, e), "handleKeyDown")
    ELSE Same

\* ClickTarget scanning forwards: the lowest index that contains the point
ClickTarget_Lowest(x, y) ==
    LET hits == {i \in 0..(Len(controls) - 1) :
                    containsPoint(ControlDef(controls[i + 1]), x, y)} IN
    IF hits = {} THEN -1 ELSE CHOOSE i \in hits : \A j \in hits : i <= j

\* the index the reverse scan of onMouseClick stops at, -1 when it finds none
ClickTarget(x, y) ==
    LET hits == {i \in 0..(Len(controls) - 1) :
                    containsPoint(ControlDef(controls[i + 1]), x, y)} IN
    IF hits = {} THEN -1 ELSE CHOOSE i \in hits : \A j \in hits : i >= j

\* onMouseClick without the modal branch: the click goes to the controls
onMouseClick_NoModalCheck(x, y) ==
    LET i == ClickTarget(x, y) IN
    IF i = -1 THEN Same
    ELSE LET c == controls[i + 1] IN
         IF HasHandleClick(ControlDef(c).kind)
         THEN [ToControl(c, ControlHandleClick(c, x, y), "handleClick")
                  EXCEPT !.focusIndex = i]
         ELSE [Same EXCEPT !.focusIndex = i]

\* onMouseClick that leaves the focus index alone
onMouseClick_NoFocus(x, y) ==
    IF Len(modals) > 0
    THEN ToModal(ModalHandleClick(ms[TopModal], x, y), "handleClick")
    ELSE LET i == ClickTarget(x, y) IN
         IF i = -1 THEN Same
         ELSE LET c == controls[i + 1] IN
              IF HasHandleClick(ControlDef(c).kind)
              THEN ToControl(c, ControlHandleClick(c, x, y), "handleClick")
              ELSE Same

onMouseClick(x, y) ==
    IF Len(modals) > 0
    THEN ToModal(ModalHandleClick(ms[TopModal], x, y), "handleClick")
    ELSE LET i == ClickTarget(x, y) IN
         IF i = -1 THEN Same
         ELSE LET c == controls[i + 1] IN
              IF HasHandleClick(ControlDef(c).kind)
              THEN [ToControl(c, ControlHandleClick(c, x, y), "handleClick")
                       EXCEPT !.focusIndex = i]
              ELSE [Same EXCEPT !.focusIndex = i]

onGamepadButton(buttonIndex) ==
    IF Len(modals) > 0
    THEN ToModal(ModalHandleGamepadButton(ms[TopModal], buttonIndex), "handleGamepadButton")
    ELSE IF buttonIndex = 0
    THEN IF FocusInRange /\ HasActivate(ControlDef(Focused).kind)
         THEN ToControl(Focused, ControlActivate(Focused), "activate")
         ELSE Same
    ELSE IF buttonIndex = 1
    THEN [Same EXCEPT !.calls = EscapeCalls]
    ELSE IF buttonIndex = 12
    THEN [Same EXCEPT !.focusIndex = focusPrevious(focusIndex, Len(controls))]
    ELSE IF buttonIndex = 13
    THEN [Same EXCEPT !.focusIndex = focusNext(focusIndex, Len(controls))]
    ELSE IF buttonIndex = 14
    THEN IF FocusInRange /\ HasGamepadAxis(ControlDef(Focused).kind)
         THEN ToControl(Focused, ControlGamepadAxis(Focused, -1), "handleGamepadAxis")
         ELSE IF FocusInRange /\ HasGamepadLeft(ControlDef(Focused).kind)
         THEN ToControl(Focused, ControlGamepadLeft(Focused), "handleGamepadLeft")
         ELSE Same
    ELSE IF buttonIndex = 15
    THEN IF FocusInRange /\ HasGamepadAxis(ControlDef(Focused).kind)
         THEN ToControl(Focused, ControlGamepadAxis(Focused, 1), "handleGamepadAxis")
         ELSE IF FocusInRange /\ HasGamepadRight(ControlDef(Focused).kind)
         THEN ToControl(Focused, ControlGamepadRight(Focused), "handleGamepadRight")
         ELSE Same
    ELSE Same

----------------------------------------------------------------------------
(* Host timers.  A deferred call fires once its delay has elapsed on the    *)
(* host's clock; update(deltaTime) plays no part in it.  Calls that are due *)
(* at the same time fire in registration order.                             *)

ModalIds == 1..(MaxModals + MaxTimers)
ToastIds == 1..MaxToasts

\* a Modal or Toast object lives while the manager or a pending closure
\* holds it; after that its id stands for a newly constructed object
ModalLive(m, mods, tms) ==
    m \in Range(mods) \/ \E k \in 1..Len(tms) : tms[k].on = "modal" /\ tms[k].id = m

ToastLive(t, tsts, tms) ==
    t \in Range(tsts) \/ \E k \in 1..Len(tms) : tms[k].on = "toast" /\ tms[k].id = t

Collect(msN, mods, tms) ==
    [m \in ModalIds |-> IF ModalLive(m, mods, tms) THEN msN[m] ELSE NoModal]

\* the item a deferred Menu call invokes: the captured index, or
\* this.selectedIndex read when the call runs
DeferredItem(t, st) == IF t.item >= 0 THEN t.item ELSE st.selectedIndex

\* the wrapper the Modal constructor puts around a button:
\* button.callback && button.callback(); this.close()
WrapperCalls(m, btn) == ButtonCalls(m, btn) \o <<Call("closeModal", m, btn)>>

\* TimerEffect whose toast closure drops the oldest toast of the list
TimerEffect_Shift(t) ==
    IF t.on = "control"
    THEN LET i == DeferredItem(t, cs[t.id]) IN
         IF ControlDef(t.id).items[i + 1].callback = "none"
         THEN [Same EXCEPT !.calls = <<Call("TypeError", t.id, i)>>]
         ELSE [Same EXCEPT !.calls = <<Call("item", t.id, i)>>]
    ELSE IF t.on = "modal"
    THEN LET i == DeferredItem(t, ms[t.id].buttonMenu) IN
         [Same EXCEPT !.calls = WrapperCalls(t.id, i),
                      !.modals = closeModal(modals, t.id)]
    ELSE [Same EXCEPT !.toasts = IF toasts # <<>> THEN Tail(toasts) ELSE toasts]

\* the body of a setTimeout closure
TimerEffect(t) ==
    IF t.on = "control"
    THEN LET i == DeferredItem(t, cs[t.id]) IN
         IF ControlDef(t.id).items[i + 1].callback = "none"
         THEN [Same EXCEPT !.calls = <<Call("TypeError", t.id, i)>>]
         ELSE [Same EXCEPT !.calls = <<Call("item", t.id, i)>>]
    ELSE IF t.on = "modal"
    THEN LET i == DeferredItem(t, ms[t.id].buttonMenu) IN
         [Same EXCEPT !.calls = WrapperCalls(t.id, i),
                      !.modals = closeModal(modals, t.id)]
    ELSE LET index == IndexOf(toasts, t.id) IN
         [Same EXCEPT !.toasts = IF index > -1 THEN Splice(toasts, index) ELSE toasts]

\* the first registered call among those that are due, 0 when none is
DueTimer ==
    IF \E k \in 1..Len(timers) : timers[k].remaining = 0
    THEN CHOOSE k \in 1..Len(timers) :
            timers[k].remaining = 0 /\ \A j \in 1..(k - 1) : timers[j].remaining # 0
    ELSE 0

----------------------------------------------------------------------------
(* Actions *)

Last(op, arg, calls, dispatch) ==
    [op |-> op, arg |-> arg, calls |-> calls, dispatch |-> dispatch]

\* the number of pending calls registered on behalf of the given owners; the
\* model keeps at most MaxTimers deferred Menu calls and MaxToasts toast
\* dismissals pending
Pending(tms, owners) == Cardinality({k \in 1..Len(tms) : tms[k].on \in owners})

\* an input event handled by the manager
Commit(r, op, arg) ==
    /\ Pending(timers, {"control", "modal"}) + Len(r.sched) <= MaxTimers
    /\ focusIndex' = r.focusIndex
    /\ cs' = r.cs
    /\ modals' = r.modals
    /\ timers' = timers \o r.sched
    /\ ms' = Collect(r.ms, r.modals, timers \o r.sched)
    /\ last' = Last(op, arg, r.calls, r.dispatch)
    /\ UNCHANGED <<controls, toasts, onEscape, texts, images, options, theme, controlOptions, cursor>>

KeyDown(e) == Commit(onKeyDown(e), "key", e)

MouseClick(p) == Commit(onMouseClick(p[1], p[2]), "click", p)

GamepadButton(b) == Commit(onGamepadButton(b), "gamepad", b)

addControlFocus(fi, n) == IF fi = -1 /\ n = 1 THEN 0 ELSE fi

AddControl(c) ==
    /\ c \notin Range(controls)
    /\ Len(controls) < MaxControls
    /\ controls' = Append(controls, c)
    /\ focusIndex' = addControlFocus(focusIndex, Len(controls) + 1)
    /\ controlOptions' = [controlOptions EXCEPT ![c] = applyTheme(theme, rawOptions(c))]
    /\ last' = Last("addControl", c, <<>>, <<>>)
    /\ UNCHANGED <<modals, toasts, onEscape, cs, ms, timers, texts, images, options, theme,
                   cursor>>

\* removeControlFocus without the clamp
removeControlFocus_NoClamp(fi, n) == fi

removeControlFocus(fi, n) == IF fi >= n THEN n - 1 ELSE fi

RemoveControl(c) ==
    /\ LET index == IndexOf(controls, c) IN
       IF index > -1
       THEN /\ controls' = Splice(controls, index)
            /\ focusIndex' = removeControlFocus(focusIndex, Len(controls) - 1)
       ELSE UNCHANGED <<controls, focusIndex>>
    /\ last' = Last("removeControl", c, <<>>, <<>>)
    /\ UNCHANGED <<modals, toasts, onEscape, cs, ms, timers, texts, images, options, theme, controlOptions, cursor>>

\* removeAllControls that leaves the escape callback set
RemoveAllControls_KeepsEscape ==
    /\ controls' = <<>>
    /\ focusIndex' = -1
    /\ modals' = <<>>
    /\ toasts' = <<>>
    /\ ms' = Collect(ms, <<>>, timers)
    /\ last' = Last("removeAllControls", 0, <<>>, <<>>)
    /\ texts' = <<>>
    /\ images' = <<>>
    /\ UNCHANGED <<onEscape, cs, timers, options, theme, controlOptions, cursor>>

\* removeAllControls that also clears the pending timeouts
RemoveAllControls_Cancel ==
    /\ controls' = <<>>
    /\ focusIndex' = -1
    /\ modals' = <<>>
    /\ toasts' = <<>>
    /\ onEscape' = FALSE
    /\ timers' = <<>>
    /\ ms' = Collect(ms, <<>>, <<>>)
    /\ last' = Last("removeAllControls", 0, <<>>, <<>>)
    /\ texts' = <<>>
    /\ images' = <<>>
    /\ UNCHANGED <<cs, options, theme, controlOptions, cursor>>

RemoveAllControls ==
    /\ controls' = <<>>
    /\ focusIndex' = -1
    /\ modals' = <<>>
    /\ toasts' = <<>>
    /\ onEscape' = FALSE
    /\ ms' = Collect(ms, <<>>, timers)
    /\ last' = Last("removeAllControls", 0, <<>>, <<>>)
    /\ texts' = <<>>
    /\ images' = <<>>
    /\ UNCHANGED <<cs, timers, options, theme, controlOptions, cursor>>

\* removeAllControlsExceptToasts that clears the toast list as well
RemoveAllControlsExceptToasts_ClearsToasts ==
    /\ controls' = <<>>
    /\ focusIndex' = -1
    /\ modals' = <<>>
    /\ toasts' = <<>>
    /\ onEscape' = FALSE
    /\ ms' = Collect(ms, <<>>, timers)
    /\ last' = Last("removeAllControlsExceptToasts", 0, <<>>, <<>>)
    /\ texts' = <<>>
    /\ images' = <<>>
    /\ UNCHANGED <<cs, timers, options, theme, controlOptions, cursor>>

RemoveAllControlsExceptToasts ==
    /\ controls' = <<>>
    /\ focusIndex' = -1
    /\ modals' = <<>>
    /\ onEscape' = FALSE
    /\ ms' = Collect(ms, <<>>, timers)
    /\ last' = Last("removeAllControlsExceptToasts", 0, <<>>, <<>>)
    /\ texts' = <<>>
    /\ images' = <<>>
    /\ UNCHANGED <<toasts, cs, timers, options, theme, controlOptions, cursor>>

FocusNext ==
    /\ focusIndex' = focusNext(focusIndex, Len(controls))
    /\ last' = Last("focusNext", 0, <<>>, <<>>)
    /\ UNCHANGED <<controls, modals, toasts, onEscape, cs, ms, timers, texts, images, options, theme, controlOptions, cursor>>

FocusPrevious ==
    /\ focusIndex' = focusPrevious(focusIndex, Len(controls))
    /\ last' = Last("focusPrevious", 0, <<>>, <<>>)
    /\ UNCHANGED <<controls, modals, toasts, onEscape, cs, ms, timers, texts, images, options, theme, controlOptions, cursor>>

\* the host assigns ui.onEscape
SetOnEscape ==
    /\ ~onEscape
    /\ onEscape' = TRUE
    /\ last' = Last("setOnEscape", 0, <<>>, <<>>)
    /\ UNCHANGED <<controls, focusIndex, modals, toasts, cs, ms, timers, texts, images, options, theme, controlOptions, cursor>>

ShowModal(buttons, escapeButtonLabel) ==
    /\ Len(modals) < MaxModals
    /\ LET m == CHOOSE i \in ModalIds :
                   /\ ~ModalLive(i, modals, timers)
                   /\ \A j \in ModalIds : ~ModalLive(j, modals, timers) => i <= j
       IN /\ modals' = Append(modals, m)
          /\ ms' = [ms EXCEPT ![m] = ModalCtor(buttons, escapeButtonLabel)]
          /\ last' = Last("showModal", m, <<>>, <<>>)
    /\ UNCHANGED <<controls, focusIndex, toasts, onEscape, cs, timers, texts, images, options, theme, controlOptions, cursor>>

\* the host calls closeModal with a handle showModal returned
CloseModal(m) ==
    /\ modals' = closeModal(modals, m)
    /\ ms' = Collect(ms, closeModal(modals, m), timers)
    /\ last' = Last("closeModal", m, <<>>, <<>>)
    /\ UNCHANGED <<controls, focusIndex, toasts, onEscape, cs, timers, texts, images, options, theme, controlOptions, cursor>>

ShowToast(duration) ==
    /\ Pending(timers, {"toast"}) < MaxToasts
    /\ LET t == CHOOSE i \in ToastIds :
                   /\ ~ToastLive(i, toasts, timers)
                   /\ \A j \in ToastIds : ~ToastLive(j, toasts, timers) => i <= j
       IN /\ toasts' = Append(toasts, t)
          /\ timers' = Append(timers, Timer("toast", t, -1, duration))
          /\ last' = Last("showToast", t, <<>>, <<>>)
    /\ UNCHANGED <<controls, focusIndex, modals, onEscape, cs, ms, texts, images, options, theme, controlOptions, cursor>>

\* addText / addImage push an overlay object; the host names it by an id
AddText(t) ==
    /\ Len(texts) < MaxTexts
    /\ texts' = Append(texts, t)
    /\ last' = Last("addText", t, <<>>, <<>>)
    /\ UNCHANGED <<controls, focusIndex, modals, toasts, onEscape, cs, ms, timers, images,
                   options, theme, controlOptions, cursor>>

AddImage(i) ==
    /\ Len(images) < MaxImages
    /\ images' = Append(images, i)
    /\ last' = Last("addImage", i, <<>>, <<>>)
    /\ UNCHANGED <<controls, focusIndex, modals, toasts, onEscape, cs, ms, timers, texts,
                   options, theme, controlOptions, cursor>>

\* setBackground that leaves the gradient in place
SetBackground_KeepsGradient(color) ==
    /\ options' = [options EXCEPT !.backgroundColor = color,
                                  !.noBackground = "false"]
    /\ last' = Last("setBackground", color, <<>>, <<>>)
    /\ UNCHANGED <<controls, focusIndex, modals, toasts, onEscape, cs, ms, timers, texts,
                   images, theme, controlOptions, cursor>>

SetBackground(color) ==
    /\ options' = [options EXCEPT !.backgroundColor = color,
                                  !.backgroundGradient = "null",
                                  !.noBackground = "false"]
    /\ last' = Last("setBackground", color, <<>>, <<>>)
    /\ UNCHANGED <<controls, focusIndex, modals, toasts, onEscape, cs, ms, timers, texts,
                   images, theme, controlOptions, cursor>>

SetBackgroundGradient(gradient, direction) ==
    /\ options' = [options EXCEPT !.backgroundGradient = gradient,
                                  !.gradientDirection =
                                      IF direction = "undefined" THEN "diagonal"
                                      ELSE direction,
                                  !.noBackground = "false"]
    /\ last' = Last("setBackgroundGradient", <<gradient, direction>>, <<>>, <<>>)
    /\ UNCHANGED <<controls, focusIndex, modals, toasts, onEscape, cs, ms, timers, texts,
                   images, theme, controlOptions, cursor>>

SetBackgroundNone ==
    /\ options' = [options EXCEPT !.noBackground = "true"]
    /\ last' = Last("setBackgroundNone", 0, <<>>, <<>>)
    /\ UNCHANGED <<controls, focusIndex, modals, toasts, onEscape, cs, ms, timers, texts,
                   images, theme, controlOptions, cursor>>

\* setTheme(themeOptions): the given keys replace the theme's; a given
\* backgroundColor also becomes the options' background colour.
SetTheme(themeOptions) ==
    /\ theme' = Spread(theme, themeOptions)
    /\ options' = IF ~Falsy(Get(themeOptions, "backgroundColor"))
                  THEN [options EXCEPT !.backgroundColor = themeOptions.backgroundColor]
                  ELSE options
    /\ last' = Last("setTheme", themeOptions, <<>>, <<>>)
    /\ UNCHANGED <<controls, focusIndex, modals, toasts, onEscape, cs, ms, timers, texts,
                   images, controlOptions, cursor>>

\* One draw call of render: what is drawn (the background, a control, an
\* overlay image or text, a modal, a toast), which one, and the argument
\* that distinguishes the call (the fill, isFocused, the toast's index).
Draw(op, id, arg) == [op |-> op, id |-> id, arg |-> arg]

\* img.image.complete: image 1 has loaded, any other is still loading
imageComplete(i) == i = 1

\* the gradient render creates: an absent direction is 'diagonal', and so is
\* any direction other than 'horizontal' and 'vertical'
renderGradient(o) ==
    LET direction == IF o.gradientDirection \in {"undefined", ""}
                     THEN "diagonal" ELSE o.gradientDirection
    IN <<"gradient", o.backgroundGradient,
         IF direction \in {"horizontal", "vertical"} THEN direction ELSE "diagonal">>

\* the background part of render: nothing when noBackground is set, else one
\* fillRect over the canvas with the gradient if there is one, else the colour
renderBackground(o) ==
    IF o.noBackground = "true" THEN <<>>
    ELSE IF o.backgroundGradient # "null"
    THEN <<Draw("fillRect", 0, renderGradient(o))>>
    ELSE <<Draw("fillRect", 0, <<"solid", o.backgroundColor>>)>>

\* render with the Panels drawn among the other controls
render_PanelsInPlace ==
    LET Complete(i) == imageComplete(i)
    IN renderBackground(options)
       \o [k \in 1..Len(SelectSeq(images, Complete)) |->
              Draw("drawImage", SelectSeq(images, Complete)[k], 0)]
       \o [k \in 1..Len(texts) |-> Draw("fillText", texts[k], 0)]
       \o [k \in 1..Len(controls) |->
              Draw("control.draw", controls[k],
                   ControlDef(controls[k]).kind # "Panel" /\ k - 1 = focusIndex)]
       \o [k \in 1..Len(modals) |-> Draw("modal.draw", modals[k], 0)]
       \o [k \in 1..Len(toasts) |-> Draw("toast.draw", toasts[k], k - 1)]

\* render(): the sequence of draw calls
render ==
    LET indices == [i \in 1..Len(controls) |-> i]
        IsPanel(i) == ControlDef(controls[i]).kind = "Panel"
        NotPanel(i) == ~IsPanel(i)
        Complete(i) == imageComplete(i)
        panels == SelectSeq(indices, IsPanel)
        others == SelectSeq(indices, NotPanel)
        loaded == SelectSeq(images, Complete)
    IN renderBackground(options)
       \o [k \in 1..Len(panels) |-> Draw("control.draw", controls[panels[k]], FALSE)]
       \o [k \in 1..Len(loaded) |-> Draw("drawImage", loaded[k], 0)]
       \o [k \in 1..Len(texts) |-> Draw("fillText", texts[k], 0)]
       \o [k \in 1..Len(others) |->
              Draw("control.draw", controls[others[k]], others[k] - 1 = focusIndex)]
       \o [k \in 1..Len(modals) |-> Draw("modal.draw", modals[k], 0)]
       \o [k \in 1..Len(toasts) |-> Draw("toast.draw", toasts[k], k - 1)]

\* the host's frame loop calls render; the draw calls are recorded
Render ==
    /\ last' = Last("render", 0, render, <<>>)
    /\ UNCHANGED <<controls, focusIndex, modals, toasts, onEscape, cs, ms, timers, texts,
                   images, options, theme, controlOptions, cursor>>

\* update(deltaTime): every attached control with an update method, then every
\* modal on the stack.  A pending call's upd is the deltaTime update has been
\* given since it was registered, its age the host time that has passed.
Update(deltaTime) ==
    /\ cs' = [c \in ControlIds |->
                 IF c \in Range(controls) /\ HasUpdate(ControlDef(c).kind)
                 THEN IF ControlDef(c).kind = "TextInput"
                      THEN TextInputUpdate(cs[c], deltaTime)
                      ELSE MenuUpdate(cs[c], deltaTime)
                 ELSE cs[c]]
    /\ ms' = [m \in ModalIds |->
                 IF m \in Range(modals)
                 THEN [ms[m] EXCEPT !.buttonMenu = MenuUpdate(ms[m].buttonMenu, deltaTime)]
                 ELSE ms[m]]
    /\ timers' = [k \in 1..Len(timers) |->
                     [timers[k] EXCEPT !.upd = Min(pressedDuration, timers[k].upd + deltaTime)]]
    /\ last' = Last("update", deltaTime, <<>>, <<>>)
    /\ UNCHANGED <<controls, focusIndex, modals, toasts, onEscape, texts, images, options, theme, controlOptions, cursor>>

\* d milliseconds pass on the host's clock; a call that is due runs first
Tick(d) ==
    /\ timers # <<>>
    /\ \A k \in 1..Len(timers) : timers[k].remaining >= d
    /\ timers' = [k \in 1..Len(timers) |->
                     [timers[k] EXCEPT !.remaining = timers[k].remaining - d,
                                       !.age = timers[k].age + d]]
    /\ last' = Last("tick", d, <<>>, <<>>)
    /\ UNCHANGED <<controls, focusIndex, modals, toasts, onEscape, cs, ms, texts, images, options, theme, controlOptions, cursor>>

TimerFires ==
    /\ DueTimer # 0
    /\ LET t == timers[DueTimer]
           rest == Splice(timers, DueTimer - 1)
           r == TimerEffect(t)
       IN /\ modals' = r.modals
          /\ toasts' = r.toasts
          /\ timers' = rest
          /\ ms' = Collect(ms, r.modals, rest)
          /\ last' = Last("timer", t, r.calls, <<>>)
    /\ UNCHANGED <<controls, focusIndex, onEscape, cs, texts, images, options, theme, controlOptions, cursor>>

Init ==
    /\ controls = <<>>
    /\ focusIndex = -1
    /\ modals = <<>>
    /\ toasts = <<>>
    /\ onEscape = FALSE
    /\ cs = [c \in ControlIds |-> ControlInit(c)]
    /\ ms = [m \in ModalIds |-> NoModal]
    /\ timers = <<>>
    /\ texts = <<>>
    /\ images = <<>>
    /\ options = OptionsInit
    /\ theme = ThemeInit
    /\ controlOptions = ControlOptionsInit(Range(controls))
    /\ cursor = ""
    /\ last = Last("new", 0, <<>>, <<>>)

\* The state before new MarkJSCanvasUI(canvas, config) has run
Unconstructed ==
    /\ controls = <<>>
    /\ focusIndex = -1
    /\ modals = <<>>
    /\ toasts = <<>>
    /\ onEscape = FALSE
    /\ cs = [c \in ControlIds |-> ControlInit(c)]
    /\ ms = [m \in ModalIds |-> NoModal]
    /\ timers = <<>>
    /\ texts = <<>>
    /\ images = <<>>
    /\ options = OptionsInit
    /\ theme = ThemeInit
    /\ controlOptions = ControlOptionsInit(Range(controls))
    /\ cursor = ""
    /\ last = Last("none", 0, <<>>, <<>>)

\* the constructor subscribing without looking at config.input
constructor_NoCheck(config) ==
    [threw |-> FALSE,
     options |-> [OptionsInit EXCEPT
                    !.backgroundColor = IF Falsy(config.backgroundColor) THEN "#1a1a1a"
                                        ELSE config.backgroundColor],
     calls |-> <<Call("subscribe", 0, 0)>>]

\* the constructor: the background configuration is taken from config, then
\* a missing config.input throws, and only after that the manager subscribes
\* to the input source
constructor(config) ==
    IF ~config.input
    THEN [threw |-> TRUE, options |-> OptionsInit, calls |-> <<Call("throw", 0, 0)>>]
    ELSE [threw |-> FALSE,
          options |-> [OptionsInit EXCEPT
                         !.backgroundColor = IF Falsy(config.backgroundColor) THEN "#1a1a1a"
                                             ELSE config.backgroundColor],
          calls |-> <<Call("subscribe", 0, 0)>>]

\* there is a manager: a constructor call has returned
Constructed == last.op # "none" /\ ~(last.op = "constructor" /\ last.dispatch # <<>>)

\* new MarkJSCanvasUI(canvas, config); a construction that throws leaves no
\* manager behind and the host may construct again
Construct(config) ==
    /\ ~Constructed
    /\ LET r == constructor(config) IN
       /\ options' = r.options
       /\ last' = Last("constructor", config, r.calls,
                       IF r.threw THEN <<Disp("throw", "manager", 0)>> ELSE <<>>)
    /\ UNCHANGED <<controls, focusIndex, modals, toasts, onEscape, cs, ms, timers, texts,
                   images, theme, controlOptions, cursor>>

----------------------------------------------------------------------------
(* The inputs the host and the input source supply *)

Key(k, shift) == [key |-> k, shiftKey |-> shift]

----------------------------------------------------------------------------
(* Focus and dispatch without modals: controls come and go, keys, clicks    *)
(* and gamepad buttons arrive.                                              *)

FocusPool == {cMenuH, cToggle, cPanel, cToggleN}

FocusKeys ==
    {Key("Escape", FALSE), Key("Tab", FALSE), Key("Tab", TRUE), Key("Enter", FALSE),
     Key("ArrowDown", FALSE)}

\* item a of cMenuH alone; item b of cMenuH and cToggle; cToggle and cToggleN;
\* the gap between the items of cMenuH; no control
FocusPoints == {<<50, 120>>, <<175, 90>>, <<300, 60>>, <<110, 120>>, <<100, 200>>}

FocusButtons == {0, 1, 12, 13, 15}

NextFocus ==
    \/ \E c \in FocusPool : AddControl(c)
    \/ \E c \in FocusPool : RemoveControl(c)
    \/ RemoveAllControls
    \/ RemoveAllControlsExceptToasts
    \/ FocusNext
    \/ FocusPrevious
    \/ SetOnEscape
    \/ \E e \in FocusKeys : KeyDown(e)
    \/ \E p \in FocusPoints : MouseClick(p)
    \/ \E b \in FocusButtons : GamepadButton(b)

SpecFocus == Init /\ [][NextFocus]_vars

\* the controls of the sequence whose containment test accepts the point,
\* by 0-based index
Hits(p) ==
    {i \in 0..(Len(controls) - 1) :
        LET d == ControlDef(controls[i + 1]) IN
        d.kind # "Panel" /\ p[1] >= d.x /\ p[1] <= d.x + d.width
                         /\ p[2] >= d.y /\ p[2] <= d.y + d.height}

\* C2: after any sequence of addControl, removeControl, removeAllControls,
\* removeAllControlsExceptToasts, focusNext, focusPrevious and key, click and
\* gamepad events the focus index lies in [-1, len-1] and is -1 exactly when
\* the control sequence is empty.
C2_FocusInRange ==
    /\ focusIndex \in (-1)..(Len(controls) - 1)
    /\ (focusIndex = -1) <=> (controls = <<>>)

\* the focused control was last in the sequence and has just been removed
C2_Witness ==
    /\ last.op = "removeControl"
    /\ Len(controls) >= 1
    /\ last.arg \notin Range(controls)
    /\ focusIndex = Len(controls) - 1

\* C4: with no modal, a click inside exactly one control's bounding box sets
\* the focus index to that control's index and invokes its click handler
\* exactly once.
C4_ClickOneControl ==
    [][\A p \in FocusPoints : \A i \in Hits(p) :
          (last'.op = "click" /\ last'.arg = p /\ modals = <<>> /\ Hits(p) = {i})
          => /\ focusIndex' = i
             /\ HasHandleClick(ControlDef(controls[i + 1]).kind)
                  => last'.dispatch = <<Disp("handleClick", "control", controls[i + 1])>>]_vars

\* a click has landed in exactly one of several controls, which was not the
\* focused one before
C4_Witness ==
    /\ last.op = "click"
    /\ modals = <<>>
    /\ Len(controls) >= 2
    /\ Cardinality(Hits(last.arg)) = 1
    /\ focusIndex \in Hits(last.arg)
    /\ focusIndex # 0
    /\ Len(last.dispatch) = 1

\* C5: with no modal, a click is delivered to at most one control; when
\* several bounding boxes contain the point only the one with the highest
\* index is focused and receives the click, and every other control's state
\* is unchanged.
C5_ClickTopmost ==
    [][\A p \in FocusPoints :
          (last'.op = "click" /\ last'.arg = p /\ modals = <<>>)
          => /\ Len(last'.dispatch) <= 1
             /\ Hits(p) = {} => (last'.dispatch = <<>> /\ cs' = cs /\ focusIndex' = focusIndex)
             /\ \A i \in Hits(p) :
                  (\A j \in Hits(p) : j <= i)
                  => /\ focusIndex' = i
                     /\ last'.dispatch = <<Disp("handleClick", "control", controls[i + 1])>>
                     /\ \A c \in ControlIds : c # controls[i + 1] => cs'[c] = cs[c]]_vars

\* a click has landed where two controls overlap
C5_Witness ==
    /\ last.op = "click"
    /\ modals = <<>>
    /\ Cardinality(Hits(last.arg)) >= 2
    /\ Len(last.dispatch) = 1

\* C6: with no modal, Tab / Shift+Tab only move the focus index and reach no
\* control's key handler; Escape only invokes onEscape when it is set and
\* reaches no control; any other key reaches the key handler of the control
\* at the focus index and no other control.
C6_KeyRouting ==
    [][\A e \in FocusKeys :
          (last'.op = "key" /\ last'.arg = e /\ modals = <<>>)
          => IF e.key = "Tab"
             THEN /\ last'.dispatch = <<>> /\ last'.calls = <<>> /\ cs' = cs
                  /\ focusIndex' =
                        IF Len(controls) = 0 THEN focusIndex
                        ELSE IF e.shiftKey
                        THEN (focusIndex + Len(controls) - 1) % Len(controls)
                        ELSE (focusIndex + 1) % Len(controls)
             ELSE IF e.key = "Escape"
             THEN /\ last'.dispatch = <<>> /\ cs' = cs /\ focusIndex' = focusIndex
                  /\ last'.calls = IF onEscape THEN <<Call("onEscape", 0, 0)>> ELSE <<>>
             ELSE /\ focusIndex' = focusIndex
                  /\ \A c \in ControlIds :
                        (focusIndex < 0 \/ c # controls[focusIndex + 1]) => cs'[c] = cs[c]
                  /\ \A k \in 1..Len(last'.dispatch) :
                        /\ focusIndex >= 0
                        /\ last'.dispatch[k] =
                              Disp("handleKeyDown", "control", controls[focusIndex + 1])
                  /\ (focusIndex >= 0 /\ ControlDef(controls[focusIndex + 1]).kind # "Panel")
                        => Len(last'.dispatch) = 1]_vars

\* Tab has moved the focus from the last control round to the first
C6_WitnessTab ==
    /\ last.op = "key" /\ last.arg = Key("Tab", FALSE)
    /\ modals = <<>> /\ Len(controls) >= 2 /\ focusIndex = 0

----------------------------------------------------------------------------
(* Modals over a screen of controls: the host has added cMenuH and cToggle, *)
(* moved the focus to cToggle and set onEscape; it then shows modals while  *)
(* input arrives and time passes.                                           *)

InitScreen ==
    /\ controls = <<cMenuH, cToggle>>
    /\ focusIndex = 1
    /\ modals = <<>>
    /\ toasts = <<>>
    /\ onEscape = TRUE
    /\ cs = [c \in ControlIds |-> ControlInit(c)]
    /\ ms = [m \in ModalIds |-> NoModal]
    /\ timers = <<>>
    /\ texts = <<>>
    /\ images = <<>>
    /\ options = OptionsInit
    /\ theme = ThemeInit
    /\ controlOptions = ControlOptionsInit(Range(controls))
    /\ cursor = ""
    /\ last = Last("new", 0, <<>>, <<>>)

ModalKeys == {Key("Escape", FALSE), Key("Enter", FALSE)}

\* item b of cMenuH and cToggle, outside the modal's buttons; the second
\* button of a two-button modal
ModalPoints == {<<175, 90>>, <<450, 370>>}

ModalButtonsIn == {0, 1}

\* showModal arguments: the buttons and options.escapeButtonLabel
ModalArgs == {<< <<Item(sYes, "user"), Item(sCancel, "user")>>, sNull >>}

NextModal ==
    \/ \E a \in ModalArgs : ShowModal(a[1], a[2])
    \/ \E e \in ModalKeys : KeyDown(e)
    \/ \E p \in ModalPoints : MouseClick(p)
    \/ \E b \in ModalButtonsIn : GamepadButton(b)
    \/ Tick(pressedDuration)
    \/ TimerFires

SpecModal == InitScreen /\ [][NextModal]_vars

InputOps == {"key", "click", "gamepad"}

\* C1: while the modal stack is non-empty every key-down, click and gamepad
\* button event is delivered only to a modal: it leaves the focus index and
\* the state of every control unchanged and does not invoke onEscape.
C1_ModalExclusive ==
    [][(last'.op \in InputOps /\ modals # <<>>)
          => /\ focusIndex' = focusIndex
             /\ cs' = cs
             /\ \A k \in 1..Len(last'.calls) : last'.calls[k].cb # "onEscape"
             /\ \A k \in 1..Len(last'.dispatch) : last'.dispatch[k].on = "modal"]_vars

\* Escape went to a modal while a control was focused and onEscape was set
C1_Witness ==
    /\ last.op = "key" /\ last.arg.key = "Escape"
    /\ Len(last.dispatch) = 1 /\ last.dispatch[1].on = "modal"
    /\ onEscape
    /\ focusIndex >= 0

\* C7: with several modals stacked, each key, click or gamepad event is
\* handled by the most recently shown modal still on the stack; it changes
\* the button menu of no other modal and removes no other modal.  (showModal
\* puts the new modal last and a removal keeps the order of the others, so
\* the last modal of the stack is the most recently shown one.)
C7_TopModalOnly ==
    [][/\ last'.op = "showModal" => modals' = Append(modals, last'.arg)
       /\ \A i, j \in 1..Len(modals) :
             (i < j /\ modals[i] \in Range(modals') /\ modals[j] \in Range(modals'))
             => IndexOf(modals', modals[i]) < IndexOf(modals', modals[j])
       /\ (last'.op \in InputOps /\ modals # <<>>)
             => /\ \E h \in {"handleKeyDown", "handleClick", "handleGamepadButton"} :
                      last'.dispatch = <<Disp(h, "modal", modals[Len(modals)])>>
                /\ \A k \in 1..(Len(modals) - 1) :
                      /\ modals'[k] = modals[k]
                      /\ ms'[modals[k]] = ms[modals[k]]]_vars

\* Escape closed the upper of two modals and the lower one is still shown
C7_Witness ==
    /\ last.op = "key" /\ last.arg.key = "Escape"
    /\ Len(last.dispatch) = 1 /\ last.dispatch[1].on = "modal"
    /\ Len(modals) >= 1
    /\ last.dispatch[1].id \notin Range(modals)

\* C10: activating a modal button invokes that button's callback exactly
\* once and then removes the modal, the callback coming before the removal,
\* whatever input arrives before the press delay elapses: so when a deferred
\* button call runs, its modal is still on the stack.
C10_CallbackThenClose ==
    [][(last'.op = "timer" /\ last'.arg.on = "modal")
          => /\ last'.arg.id \in Range(modals)
             /\ last'.arg.id \notin Range(modals')]_vars

----------------------------------------------------------------------------
(* Escape and gamepad button 1 on a modal: the manager has just shown one   *)
(* modal, with buttons and escapeButtonLabel drawn from EscapeArgs.         *)

EscapeArgs ==
    {<< <<>>, sNull >>,
     << <<>>, sOK >>,
     << <<Item(sYes, "user"), Item(sNo, "user")>>, sNoLow >>,
     << <<Item(sOK, "user"), Item(sCancel, "user")>>, sNull >>,
     << <<Item(sYes, "user"), Item(sCancel, "user")>>, sNo >>,
     << <<Item(sClose, "none"), Item(sExit, "user")>>, sNull >>,
     << <<Item(sExit, "user"), Item(sClose, "user")>>, sClose >>}

InitEscape ==
    /\ controls = <<>>
    /\ focusIndex = -1
    /\ modals = <<1>>
    /\ toasts = <<>>
    /\ onEscape = FALSE
    /\ cs = [c \in ControlIds |-> ControlInit(c)]
    /\ \E a \in EscapeArgs :
          ms = [m \in ModalIds |-> IF m = 1 THEN ModalCtor(a[1], a[2]) ELSE NoModal]
    /\ timers = <<>>
    /\ texts = <<>>
    /\ images = <<>>
    /\ options = OptionsInit
    /\ theme = ThemeInit
    /\ controlOptions = ControlOptionsInit(Range(controls))
    /\ cursor = ""
    /\ last = Last("showModal", 1, <<>>, <<>>)

EscapeKeys == {Key("Escape", FALSE), Key("Enter", FALSE), Key("ArrowRight", FALSE)}

\* the first of two buttons
EscapePoints == {<<300, 370>>}

EscapeButtonsIn == {0, 1}

NextEscape ==
    \/ \E e \in EscapeKeys : KeyDown(e)
    \/ \E p \in EscapePoints : MouseClick(p)
    \/ \E b \in EscapeButtonsIn : GamepadButton(b)
    \/ Tick(pressedDuration)
    \/ TimerFires

SpecEscape == InitEscape /\ [][NextEscape]_vars

\* 1-based positions of the buttons whose label, lower-cased, is in the set
Labelled(buttons, lowered) ==
    {i \in 1..Len(buttons) : toLowerCase(buttons[i].label) \in lowered}

DefaultEscapeLabels ==
    {<<"e","x","i","t">>, <<"c","l","o","s","e">>, <<"c","a","n","c","e","l">>}

\* what Escape on modal m must invoke, given the candidate buttons: the
\* callback of the first candidate if it has one, then closeModal
EscapeCallsFor(m, cand) ==
    LET first == IF cand = {} THEN 0 ELSE CHOOSE i \in cand : \A j \in cand : i <= j
        cb == IF first = 0 THEN "none" ELSE ms[m].buttons[first].callback
    IN (IF cb = "user" THEN <<Call("button", m, first - 1)>>
        ELSE IF cb = "close" THEN <<Call("closeModal", m, first - 1)>>
        ELSE <<>>) \o <<Call("closeModal", m, -1)>>

EscapeOnModal == last'.op = "key" /\ last'.arg.key = "Escape" /\ modals # <<>>

\* C8 as stated: Escape on the top modal invokes the callback of the button
\* whose label equals escapeButtonLabel (case-insensitive); otherwise, when no
\* button's label equals it, the callback of the first button labelled Exit,
\* Close or Cancel; none when no button matches; then the modal is removed.
C8_Original ==
    [][EscapeOnModal =>
          LET m == modals[Len(modals)]
              byLabel == Labelled(ms[m].buttons, {toLowerCase(ms[m].escapeButtonLabel)})
              byDefault == Labelled(ms[m].buttons, DefaultEscapeLabels)
          IN /\ last'.calls = EscapeCallsFor(m, IF byLabel # {} THEN byLabel ELSE byDefault)
             /\ m \notin Range(modals')]_vars

\* C8, amended: when escapeButtonLabel is set, Escape invokes the callback of
\* the first button whose label equals it (case-insensitive) and no callback
\* when no button matches; when it is not set, the callback of the first
\* button labelled Exit, Close or Cancel (case-insensitive); a matched button
\* without a callback invokes nothing.  At most one callback is invoked, once,
\* and the modal is removed from the stack.
C8_EscapeRule ==
    [][EscapeOnModal =>
          LET m == modals[Len(modals)]
              byLabel == Labelled(ms[m].buttons, {toLowerCase(ms[m].escapeButtonLabel)})
              byDefault == Labelled(ms[m].buttons, DefaultEscapeLabels)
          IN /\ last'.calls = EscapeCallsFor(m, IF ms[m].escapeButtonLabel # <<>>
                                                THEN byLabel ELSE byDefault)
             /\ Cardinality({k \in 1..Len(last'.calls) : last'.calls[k].cb = "button"}) <= 1
             /\ m \notin Range(modals')]_vars

\* Escape has invoked the callback of the second button, matched through an
\* escapeButtonLabel that differs from the label in case, and closed the modal
C8_Witness ==
    /\ last.op = "key" /\ last.arg.key = "Escape"
    /\ last.calls = <<Call("button", 1, 1), Call("closeModal", 1, -1)>>
    /\ modals = <<>>

\* C9: gamepad button 1 on a modal invokes the same button callback (or
\* none) as the Escape key would on the same modal, and closes the modal.
C9_GamepadLikeEscape ==
    [][(last'.op = "gamepad" /\ last'.arg = 1 /\ modals # <<>>)
          => /\ last'.calls = onKeyDown(Key("Escape", FALSE)).calls
             /\ modals' = onKeyDown(Key("Escape", FALSE)).modals]_vars

----------------------------------------------------------------------------
(* A Menu with callbacks on the screen: activations, update and host time   *)

MenuKeys == {Key("Enter", FALSE), Key("ArrowDown", FALSE)}

\* item a, item b; below the menu
MenuPoints == {<<100, 25>>, <<100, 75>>, <<100, 200>>}

MenuButtonsIn == {0}

MenuTimes == {150, 300}

NextMenu ==
    \/ AddControl(cMenuV)
    \/ \E e \in MenuKeys : KeyDown(e)
    \/ \E p \in MenuPoints : MouseClick(p)
    \/ \E b \in MenuButtonsIn : GamepadButton(b)
    \/ \E dt \in MenuTimes : Update(dt)
    \/ \E d \in MenuTimes : Tick(d)
    \/ TimerFires

SpecMenu == Init /\ [][NextMenu]_vars

\* the step activated an item of cMenuV: a click on an item, Enter or Space,
\* or gamepad button 0, with the menu attached and focused
ActivatesMenu ==
    /\ modals = <<>>
    /\ focusIndex >= 0 /\ controls[focusIndex + 1] = cMenuV
    /\ \/ last'.op = "key" /\ last'.arg.key \in {"Enter", " "}
       \/ last'.op = "gamepad" /\ last'.arg = 0
       \/ last'.op = "click" /\ last'.arg \in {<<100, 25>>, <<100, 75>>}

----------------------------------------------------------------------------
(* Deferred calls against removal: a Menu with callbacks, a modal and a     *)
(* toast are created, activated and removed while host time passes.  The    *)
(* host's event loop lets time pass and runs a call that is due.            *)

CancelKeys == {Key("Enter", FALSE)}

CancelDurations == {300}

CancelArgs == {<< <<Item(sYes, "user")>>, sNull >>}

NextCancel ==
    \/ AddControl(cMenuV)
    \/ RemoveControl(cMenuV)
    \/ RemoveAllControls
    \/ RemoveAllControlsExceptToasts
    \/ \E a \in CancelArgs : Len(modals) = 0 /\ ShowModal(a[1], a[2])
    \/ \E m \in Range(modals) : CloseModal(m)
    \/ \E d \in CancelDurations : Pending(timers, {"toast"}) = 0 /\ ShowToast(d)
    \/ \E e \in CancelKeys : KeyDown(e)
    \/ Tick(pressedDuration)
    \/ TimerFires

SpecCancel ==
    /\ Init /\ [][NextCancel]_vars
    /\ WF_vars(Tick(pressedDuration))
    /\ WF_vars(TimerFires)

\* C11: a deferred invocation, once scheduled, is never cancelled.  No
\* operation other than the call's own firing removes, reorders or postpones
\* a pending call (removeControl, removeAllControls,
\* removeAllControlsExceptToasts and closeModal included); a call fires
\* when its delay has elapsed, a Menu call then invoking the item's callback
\* even when the menu is no longer attached, a modal button's call the
\* button's callback even when the modal was closed; and every pending call
\* does fire.
C11_NeverCancelled ==
    /\ [][/\ last'.op # "timer"
             => /\ Len(timers') >= Len(timers)
                /\ \A k \in 1..Len(timers) :
                      /\ timers'[k].on = timers[k].on
                      /\ timers'[k].id = timers[k].id
                      /\ timers'[k].item = timers[k].item
                      /\ timers'[k].delay = timers[k].delay
                      /\ timers'[k].age + timers'[k].remaining = timers[k].delay
          /\ last'.op = "timer"
             => /\ last'.arg \in Range(timers)
                /\ last'.arg.age = last'.arg.delay
                /\ Len(timers') = Len(timers) - 1
                /\ last'.arg.on = "control"
                      => last'.calls = <<Call("item", last'.arg.id,
                                              IF last'.arg.item >= 0 THEN last'.arg.item
                                              ELSE cs[last'.arg.id].selectedIndex)>>
                /\ last'.arg.on = "modal"
                      => last'.calls[1] = Call("button", last'.arg.id, 0)
                /\ last'.arg.on = "toast"
                      => last'.arg.id \notin Range(toasts')]_vars
    /\ \A o \in {"control", "modal", "toast"} :
          (\E k \in 1..Len(timers) : timers[k].on = o)
              ~> (last.op = "timer" /\ last.arg.on = o)

\* a Menu item's deferred callback has run after the menu was removed
C11_Witness ==
    /\ last.op = "timer" /\ last.arg.on = "control"
    /\ last.arg.id \notin Range(controls)
    /\ last.calls = <<Call("item", cMenuV, 0)>>

----------------------------------------------------------------------------
(* Toasts: shown with a duration, dismissed by their own timeout, cleared   *)
(* by removeAllControls and kept by removeAllControlsExceptToasts.          *)

ToastDurations == {300, 600}

ToastTimes == {300}

NextToast ==
    \/ \E d \in ToastDurations : ShowToast(d)
    \/ AddControl(cToggleN)
    \/ RemoveAllControls
    \/ RemoveAllControlsExceptToasts
    \/ \E d \in ToastTimes : Tick(d)
    \/ TimerFires

SpecToast ==
    /\ Init /\ [][NextToast]_vars
    /\ WF_vars(\E d \in ToastTimes : Tick(d))
    /\ WF_vars(TimerFires)

\* the sequence without the element v, the others in their order
Without(s, v) == SelectSeq(s, LAMBDA e : e # v)

\* C12: every toast created by showToast is eventually absent from the toast
\* list.  showToast appends it; it stays in the list until its timer fires
\* or removeAllControls clears the list; the timer firing removes that toast
\* only, keeps the order of the others, and changes nothing when the toast
\* is no longer in the list; a removed toast does not come back.
C12_ToastDismissed ==
    /\ [][/\ last'.op = "showToast"
             => /\ last'.arg \notin Range(toasts)
                /\ \A k \in 1..Len(timers) : timers[k].id # last'.arg
                /\ toasts' = Append(toasts, last'.arg)
          /\ last'.op \notin {"showToast", "timer", "removeAllControls"}
             => toasts' = toasts
          /\ (last'.op = "timer" /\ last'.arg.on = "toast")
             => /\ toasts' = Without(toasts, last'.arg.id)
                /\ last'.arg.id \notin Range(toasts) => toasts' = toasts
          /\ last'.op = "removeAllControls" => toasts' = <<>>]_vars
    /\ \A t \in ToastIds : (t \in Range(toasts)) ~> (t \notin Range(toasts))

\* the timer of the middle one of three toasts has fired
C12_Witness ==
    /\ last.op = "timer" /\ last.arg.on = "toast"
    /\ Len(toasts) = 2
    /\ \E i, j \in 1..MaxToasts :
          i < last.arg.id /\ last.arg.id < j /\ toasts = <<i, j>>

\* C13: removeAllControlsExceptToasts leaves the toast list and every
\* pending dismissal as they are, so that a preserved toast's timer still
\* fires when the toast's own duration has elapsed since showToast, and
\* removes it; removeAllControls empties the toast list.
C13_ExceptToastsKeepsToasts ==
    [][/\ last'.op = "removeAllControlsExceptToasts"
          => /\ toasts' = toasts
             /\ timers' = timers
       /\ last'.op = "removeAllControls" => toasts' = <<>>
       /\ \A k \in 1..Len(timers) :
             timers[k].on = "toast" => timers[k].age + timers[k].remaining = timers[k].delay
       /\ (last'.op = "timer" /\ last'.arg.on = "toast")
          => /\ last'.arg.age = last'.arg.delay
             /\ last'.arg.id \notin Range(toasts')]_vars

\* removeAllControlsExceptToasts has run with two toasts shown, one of them
\* part of the way through its duration
C13_Witness ==
    /\ last.op = "removeAllControlsExceptToasts"
    /\ Len(toasts) >= 2
    /\ \E k \in 1..Len(timers) : timers[k].age > 0 /\ timers[k].id \in Range(toasts)
    /\ controls = <<>>

----------------------------------------------------------------------------
(* A screen is composed (a control, overlay text and image, background,     *)
(* theme, escape callback, a modal) and cleared.                            *)

SceneTexts == {1}
SceneImages == {1}
SceneColors == {"#000000"}
SceneGradients == {"gradient"}
SceneDirections == {"diagonal"}
SceneThemes == {[controlColor |-> "#ff0000", backgroundColor |-> "#ffffff"]}
SceneArgs == {<< <<>>, sNull >>}
SceneKeys == {Key("Escape", FALSE)}

NextScene ==
    \/ AddControl(cToggleN)
    \/ \E t \in SceneTexts : AddText(t)
    \/ \E i \in SceneImages : AddImage(i)
    \/ \E c \in SceneColors : SetBackground(c)
    \/ \E g \in SceneGradients : \E d \in SceneDirections : SetBackgroundGradient(g, d)
    \/ SetBackgroundNone
    \/ \E th \in SceneThemes : SetTheme(th)
    \/ SetOnEscape
    \/ \E a \in SceneArgs : Len(modals) = 0 /\ ShowModal(a[1], a[2])
    \/ RemoveAllControls
    \/ RemoveAllControlsExceptToasts
    \/ \E e \in SceneKeys : KeyDown(e)

SpecScene == Init /\ [][NextScene]_vars

\* C14: removeAllControls and removeAllControlsExceptToasts each empty the
\* control sequence, the overlay text and image lists and the modal stack,
\* set the focus index to -1 and clear onEscape, so that an Escape pressed
\* before onEscape is set again invokes nothing; they leave the background
\* configuration (colour, gradient, direction, no-background flag) and the
\* theme unchanged.
C14_ClearKeepsBackground ==
    [][/\ last'.op \in {"removeAllControls", "removeAllControlsExceptToasts"}
          => /\ controls' = <<>> /\ texts' = <<>> /\ images' = <<>> /\ modals' = <<>>
             /\ focusIndex' = -1
             /\ ~onEscape'
             /\ options' = options
             /\ theme' = theme
       /\ (last.op \in {"removeAllControls", "removeAllControlsExceptToasts"}
           /\ last'.op = "key" /\ last'.arg.key = "Escape")
          => last'.calls = <<>> /\ last'.dispatch = <<>>]_vars

\* Escape is pressed right after removeAllControls cleared a screen whose
\* background colour, gradient, no-background flag and theme had been set
C14_Witness ==
    /\ last.op = "key" /\ last.arg.key = "Escape" /\ last.calls = <<>>
    /\ controls = <<>> /\ modals = <<>> /\ ~onEscape
    /\ options.backgroundColor # OptionsInit.backgroundColor
    /\ options.backgroundGradient # "null"
    /\ options.noBackground = "true"
    /\ theme # ThemeInit

----------------------------------------------------------------------------
(* The wraparound law of focusNext / focusPrevious, over the control        *)
(* sequences and focus indices SpecFocus reaches                            *)

RECURSIVE FocusNextTimes(_, _, _)
\* the focus index after k focusNext calls on a sequence of length n
FocusNextTimes(fi, n, k) ==
    IF k = 0 THEN fi ELSE FocusNextTimes(focusNext(fi, n), n, k - 1)

RECURSIVE FocusPreviousTimes(_, _, _)
FocusPreviousTimes(fi, n, k) ==
    IF k = 0 THEN fi ELSE FocusPreviousTimes(focusPrevious(fi, n), n, k - 1)

\* C15: for a control sequence of length N > 0, N focusNext calls and N
\* focusPrevious calls return the focus index to its starting value,
\* focusNext followed by focusPrevious (and the reverse) is the identity and
\* each call moves the index by exactly one modulo N; on an empty sequence
\* both leave the index at -1.
C15_FocusWrap ==
    /\ [](LET n == Len(controls) IN
          IF n > 0
          THEN /\ FocusNextTimes(focusIndex, n, n) = focusIndex
               /\ FocusPreviousTimes(focusIndex, n, n) = focusIndex
               /\ \A k \in 1..(n - 1) : FocusNextTimes(focusIndex, n, k) # focusIndex
               /\ focusPrevious(focusNext(focusIndex, n), n) = focusIndex
               /\ focusNext(focusPrevious(focusIndex, n), n) = focusIndex
          ELSE /\ focusNext(focusIndex, n) = -1
               /\ focusPrevious(focusIndex, n) = -1)
    /\ [][LET n == Len(controls) IN
          /\ last'.op = "focusNext"
             => focusIndex' = IF n > 0 THEN (focusIndex + 1) % n ELSE -1
          /\ last'.op = "focusPrevious"
             => focusIndex' = IF n > 0 THEN (focusIndex - 1) % n ELSE -1]_vars

\* focusPrevious has wrapped from the first of three controls to the last
C15_Witness ==
    /\ last.op = "focusPrevious"
    /\ Len(controls) = 3
    /\ focusIndex = 2

\* C17: a Panel never receives focus: the focus index never designates a
\* Panel control.
C17_PanelNeverFocused ==
    (focusIndex >= 0 /\ focusIndex < Len(controls))
        => ControlDef(controls[focusIndex + 1]).kind # "Panel"

\* C18: with no modal, a click inside a Toggle's bounding box but outside its
\* interactive region (the switch) does not change the Toggle's value and
\* fires no callback.
C18_ClickOnSwitchOnly ==
    [][\A p \in FocusPoints : \A c \in Range(controls) :
          (/\ last'.op = "click" /\ last'.arg = p /\ modals = <<>>
           /\ ControlDef(c).kind = "Toggle"
           /\ ~ToggleIsOverInteractiveArea(ControlDef(c), p[1], p[2]))
          => /\ cs'[c] = cs[c]
             /\ \A k \in 1..Len(last'.calls) : last'.calls[k].owner # c]_vars

----------------------------------------------------------------------------
(* Gamepad buttons without modals: a horizontal Menu, a Slider and a Toggle *)
(* come and go, onEscape is set, the focus moves.                           *)

GamepadPool == {cMenuH, cSlider, cToggleN}

GamepadButtons == {0, 1, 2, 12, 13, 14, 15}

NextGamepad ==
    \/ \E c \in GamepadPool : AddControl(c)
    \/ \E c \in GamepadPool : RemoveControl(c)
    \/ SetOnEscape
    \/ \E b \in GamepadButtons : GamepadButton(b)

SpecGamepad == Init /\ [][NextGamepad]_vars

\* what button 14 (direction -1) or 15 (direction 1) does to the fields of a
\* control of the given definition
DpadEffect(d, st, direction) ==
    CASE d.kind = "Slider" ->
            [st EXCEPT !.value = IF direction < 0 THEN Max(d.min, st.value - d.step)
                                 ELSE Min(d.max, st.value + d.step)]
      [] d.kind = "Menu" ->
            [st EXCEPT !.selectedIndex = (st.selectedIndex + direction) % Len(d.items)]
      [] OTHER -> st

\* C16: with no modal, gamepad button 12 or 13 changes only the focus index
\* (focusPrevious / focusNext); 0, 14 and 15 affect only the control at the
\* focus index (activate; decrement / increment through handleGamepadAxis
\* when the control has it, otherwise handleGamepadLeft / Right); 1 only
\* invokes onEscape when it is set; any other index changes nothing.
C16_GamepadRouting ==
    [][(last'.op = "gamepad" /\ modals = <<>>)
          => LET b == last'.arg
                 n == Len(controls)
                 has == focusIndex >= 0 /\ focusIndex < n
                 c == controls[focusIndex + 1]
                 kind == ControlDef(c).kind
             IN /\ controls' = controls /\ modals' = modals /\ onEscape' = onEscape
                /\ b \in {12, 13}
                   => /\ cs' = cs /\ last'.calls = <<>> /\ last'.dispatch = <<>>
                      /\ focusIndex' = IF n = 0 THEN focusIndex
                                       ELSE (focusIndex + (IF b = 12 THEN -1 ELSE 1)) % n
                /\ b \notin {12, 13} => focusIndex' = focusIndex
                /\ b \in {0, 14, 15}
                   => /\ \A o \in ControlIds : (~has \/ o # c) => cs'[o] = cs[o]
                      /\ \A k \in 1..Len(last'.dispatch) : has /\ last'.dispatch[k].id = c
                      /\ \A k \in 1..Len(last'.calls) : has /\ last'.calls[k].owner = c
                /\ (b = 0 /\ has)
                   => last'.dispatch = IF kind \in {"Menu", "Toggle"}
                                       THEN <<Disp("activate", "control", c)>> ELSE <<>>
                /\ (b \in {14, 15} /\ has)
                   => /\ cs'[c] = DpadEffect(ControlDef(c), cs[c], IF b = 14 THEN -1 ELSE 1)
                      /\ last'.dispatch =
                            IF kind = "Slider"
                            THEN <<Disp("handleGamepadAxis", "control", c)>>
                            ELSE IF kind = "Menu"
                            THEN <<Disp(IF b = 14 THEN "handleGamepadLeft"
                                        ELSE "handleGamepadRight", "control", c)>>
                            ELSE <<>>
                /\ b = 1
                   => /\ cs' = cs /\ last'.dispatch = <<>>
                      /\ last'.calls = IF onEscape THEN <<Call("onEscape", 0, 0)>> ELSE <<>>
                /\ b \notin {0, 1, 12, 13, 14, 15}
                   => cs' = cs /\ last'.calls = <<>> /\ last'.dispatch = <<>>]_vars

\* button 15 has incremented the focused Slider through handleGamepadAxis
\* while another control was attached
C16_Witness ==
    /\ last.op = "gamepad" /\ last.arg = 15
    /\ last.dispatch = <<Disp("handleGamepadAxis", "control", cSlider)>>
    /\ cs[cSlider].value = 7
    /\ Len(controls) >= 2

----------------------------------------------------------------------------
(* A Slider (min 1, max 10, step 4, initial value 3) on the screen, next to *)
(* a Toggle: track clicks, arrow keys and the gamepad's d-pad.              *)

SliderPool == {cSlider, cToggleN}

SliderKeys == {Key("ArrowLeft", FALSE), Key("ArrowRight", FALSE), Key("Enter", FALSE)}

\* the x of a track click: left of the track, its start, a quarter, the
\* middle, three quarters, its end, right of the track
SliderXs == {105, 110, 180, 250, 320, 390, 395}

SliderPoints == {<<x, 340>> : x \in SliderXs}

SliderButtons == {14, 15}

NextSlider ==
    \/ \E c \in SliderPool : AddControl(c)
    \/ FocusNext
    \/ \E e \in SliderKeys : KeyDown(e)
    \/ \E p \in SliderPoints : MouseClick(p)
    \/ \E b \in SliderButtons : GamepadButton(b)

SpecSlider == Init /\ [][NextSlider]_vars

\* the step delivered an input to the Slider
SliderInput ==
    /\ last'.op \in InputOps
    /\ Len(last'.dispatch) = 1
    /\ last'.dispatch[1].id = cSlider

\* C19: for every Slider input (track click, ArrowLeft / ArrowRight, gamepad
\* axis) the callback is invoked only if the value after the input differs
\* from the value before it.
C19_CallbackOnlyOnChange ==
    [][(SliderInput /\ last'.calls # <<>>)
          => cs'[cSlider].value # cs[cSlider].value]_vars

\* C20: Slider.updateValueFromX is idempotent: applied twice with the same x
\* and nothing in between it yields the value one application yields, and
\* the second application invokes no callback.  A track click is one
\* application: it leaves the value updateValueFromX computes from its x,
\* with one callback when that differs from the value before and none
\* otherwise.
C20_UpdateValueFromXIdempotent ==
    /\ [](\A x \in SliderXs :
             LET d == ControlDef(cSlider)
                 once == SliderUpdateValueFromX(d, cs[cSlider], x)
                 twice == SliderUpdateValueFromX(d, once.st, x)
             IN /\ twice.st = once.st
                /\ twice.calls = <<>>
                /\ once.st.value \in d.min..d.max)
    /\ [][(SliderInput /\ last'.op = "click")
             => LET d == ControlDef(cSlider)
                    again == SliderUpdateValueFromX(d, cs'[cSlider], last'.arg[1])
                IN /\ again.st = cs'[cSlider]
                   /\ again.calls = <<>>
                   /\ Len(last'.calls) = IF cs'[cSlider] # cs[cSlider] THEN 1 ELSE 0]_vars

\* a click in the middle of the track that found the value already at what
\* the click computes (4, which only such a click produces) and invoked no
\* callback
C20_Witness ==
    /\ last.op = "click" /\ last.arg = <<250, 340>>
    /\ last.dispatch = <<Disp("handleClick", "control", cSlider)>>
    /\ last.calls = <<>>
    /\ cs[cSlider].value = 4

----------------------------------------------------------------------------
(* Radio and Carousel: selection by keys, clicks and the gamepad.           *)

SelectPool == {cRadio, cCarousel}

SelectKeys == {Key("ArrowUp", FALSE), Key("ArrowDown", FALSE),
               Key("ArrowLeft", FALSE), Key("ArrowRight", FALSE)}

\* the Carousel's left arrow, right arrow and middle; the Radio's first and
\* last item
SelectPoints == {<<120, 430>>, <<330, 430>>, <<200, 430>>, <<500, 340>>, <<500, 440>>}

SelectButtons == {14, 15}

MaxSteps == 7

NextSelect ==
    \/ \E c \in SelectPool : AddControl(c)
    \/ \E c \in SelectPool : RemoveControl(c)
    \/ FocusNext
    \/ \E e \in SelectKeys : KeyDown(e)
    \/ \E p \in SelectPoints : MouseClick(p)
    \/ \E b \in SelectButtons : GamepadButton(b)

SpecSelect == Init /\ [][NextSelect]_vars

\* the "next" and "previous" operation of a Radio or Carousel
SelectNext(d, st) ==
    IF d.kind = "Radio" THEN RadioHandleGamepadRight(d, st) ELSE CarouselSelectNext(d, st)

SelectPrevious(d, st) ==
    IF d.kind = "Radio" THEN RadioHandleGamepadLeft(d, st) ELSE CarouselSelectPrevious(d, st)

RECURSIVE SelectNextTimes(_, _, _)
SelectNextTimes(d, st, k) ==
    IF k = 0 THEN st ELSE SelectNextTimes(d, SelectNext(d, st).st, k - 1)

\* +1 when the input is a "next" operation on control c, -1 when it is a
\* "previous" operation, 0 otherwise
SelectDirection(c, l) ==
    LET d == ControlDef(c)
        vertical == d.orientation = "vertical"
    IN CASE l.op = "key" ->
              IF l.arg.key = (IF vertical THEN "ArrowDown" ELSE "ArrowRight") THEN 1
              ELSE IF l.arg.key = (IF vertical THEN "ArrowUp" ELSE "ArrowLeft") THEN -1
              ELSE 0
         [] l.op = "gamepad" -> IF l.arg = 15 THEN 1 ELSE IF l.arg = 14 THEN -1 ELSE 0
         [] l.op = "click" ->
              IF d.kind # "Carousel" THEN 0
              ELSE IF l.arg[1] >= d.x + d.width - d.padding - 2 * d.arrowSize
                      /\ l.arg[1] <= d.x + d.width - d.padding THEN 1
              ELSE IF l.arg[1] >= d.x + d.padding
                      /\ l.arg[1] <= d.x + d.padding + 2 * d.arrowSize THEN -1
              ELSE 0
         [] OTHER -> 0

\* C21: for a Radio or Carousel with M > 0 items, K consecutive "next"
\* operations take selectedIndex to (initial + K) mod M, "previous" undoes
\* "next" and the reverse, and every next or previous operation that
\* reaches the control by a key, an arrow click or the gamepad moves the
\* selection by one modulo M and calls the callback once with
\* (selectedIndex, items[selectedIndex]) as they are after the move.
C21_SelectWraps ==
    /\ [](\A c \in SelectPool :
            LET d == ControlDef(c)
                st == cs[c]
                M == Len(d.items)
            IN /\ \A K \in 0..MaxSteps :
                     SelectNextTimes(d, st, K).selectedIndex = (st.selectedIndex + K) % M
               /\ SelectPrevious(d, SelectNext(d, st).st).st = st
               /\ SelectNext(d, SelectPrevious(d, st).st).st = st)
    /\ [][\A c \in SelectPool :
            LET d == ControlDef(c)
                M == Len(d.items)
                target == IF last'.op = "click" THEN focusIndex' ELSE focusIndex
                reached == /\ last'.op \in {"key", "gamepad", "click"}
                           /\ last'.dispatch # <<>>
                           /\ target >= 0 /\ target < Len(controls)
                           /\ controls[target + 1] = c
                dir == SelectDirection(c, last')
            IN (reached /\ dir # 0)
               => /\ cs'[c].selectedIndex = (cs[c].selectedIndex + dir) % M
                  /\ last'.calls =
                        <<Call("callback", c,
                               [index |-> cs'[c].selectedIndex,
                                item |-> d.items[cs'[c].selectedIndex + 1]])>>]_vars

\* the ArrowDown key has wrapped the Radio from its last item to the first
\* and called the callback with (0, "a")
C21_Witness ==
    /\ last.op = "key" /\ last.arg.key = "ArrowDown"
    /\ FocusInRange /\ Focused = cRadio
    /\ cs[cRadio].selectedIndex = 0
    /\ cs[cCarousel].selectedIndex = 1
    /\ last.calls = <<Call("callback", cRadio, [index |-> 0, item |-> "a"])>>

----------------------------------------------------------------------------
(* Clicks on menus: a vertical menu without gap whose items have callbacks  *)
(* and, overlapping its lower edge, a horizontal menu with a gap.           *)

MenuClickPool == {cMenuV, cMenuH}

\* item a of cMenuV; the edge shared by its items a and b; item b of cMenuV
\* and item a of cMenuH; the gap of cMenuH; item b of cMenuH; no control
MenuClickPoints == {<<100, 25>>, <<100, 50>>, <<100, 90>>, <<110, 120>>, <<150, 120>>,
                    <<100, 200>>}

MenuClickTimes == {150, 300}

NextMenuClick ==
    \/ \E c \in MenuClickPool : AddControl(c)
    \/ \E p \in MenuClickPoints : MouseClick(p)
    \/ \E dt \in MenuClickTimes : Update(dt)
    \/ Tick(pressedDuration)
    \/ TimerFires

SpecMenuClick == Init /\ [][NextMenuClick]_vars

\* the items of Menu d whose bounds, in closed form, contain the point
ClosedFormItems(d, x, y) ==
    {k \in 0..(Len(d.items) - 1) :
        IF d.orientation = "horizontal"
        THEN /\ x >= d.x + k * (d.itemWidth + d.gap)
             /\ x <= d.x + k * (d.itemWidth + d.gap) + d.itemWidth
             /\ y >= d.y /\ y <= d.y + d.itemHeight
        ELSE /\ y >= d.y + k * (d.itemHeight + d.gap)
             /\ y <= d.y + k * (d.itemHeight + d.gap) + d.itemHeight
             /\ x >= d.x /\ x <= d.x + d.itemWidth}

\* the attached controls whose bounding box contains the point
BoxesAt(x, y) ==
    {i \in 0..(Len(controls) - 1) :
        LET d == ControlDef(controls[i + 1])
        IN x >= d.x /\ x <= d.x + d.width /\ y >= d.y /\ y <= d.y + d.height}

\* C22: a click delivered to a Menu selects the lowest-index item whose
\* closed-form bounds contain the point (selectedIndex = that index,
\* pressed = TRUE, pressedTime = 0, and the item's callback, if any, is
\* scheduled); a click in no item's bounds leaves the Menu's fields as they
\* are and schedules nothing; a click outside every control's box also
\* leaves the focus index unchanged.
C22_MenuClick ==
    [][last'.op = "click"
         => LET x == last'.arg[1]
                y == last'.arg[2]
                boxes == BoxesAt(x, y)
            IN IF boxes = {}
               THEN focusIndex' = focusIndex /\ cs' = cs /\ timers' = timers
               ELSE LET i == CHOOSE j \in boxes : \A k \in boxes : j >= k
                        c == controls[i + 1]
                        d == ControlDef(c)
                        hit == ClosedFormItems(d, x, y)
                    IN /\ \A o \in ControlIds : o # c => cs'[o] = cs[o]
                       /\ IF hit = {}
                          THEN cs'[c] = cs[c] /\ timers' = timers
                          ELSE LET k == CHOOSE j \in hit : \A l \in hit : j <= l
                               IN /\ cs'[c].selectedIndex = k
                                  /\ cs'[c].pressed = TRUE
                                  /\ cs'[c].pressedTime = 0
                                  /\ timers' =
                                        IF d.items[k + 1].callback # "none"
                                        THEN Append(timers,
                                                    Timer("control", c, k, pressedDuration))
                                        ELSE timers]_vars

\* a click on the edge shared by items a and b of cMenuV has selected item a
\* while item b was selected and half way through its pressed time, and
\* scheduled a's callback
C22_Witness ==
    /\ last.op = "click" /\ last.arg = <<100, 50>>
    /\ controls = <<cMenuH, cMenuV>>
    /\ cs[cMenuV] = [kind |-> "Menu", selectedIndex |-> 0, pressed |-> TRUE, pressedTime |-> 0]
    /\ Len(timers) = 2
    /\ timers[1].item = 1 /\ timers[1].upd = 150
    /\ timers[2].item = 0 /\ timers[2].upd = 0

\* a click in the gap of cMenuH has changed neither menu nor the pending calls
C22_WitnessGap ==
    /\ last.op = "click" /\ last.arg = <<110, 120>>
    /\ controls = <<cMenuV, cMenuH>>
    /\ focusIndex = 1
    /\ cs[cMenuH].selectedIndex = 1 /\ cs[cMenuH].pressed
    /\ Len(timers) = 1

----------------------------------------------------------------------------
(* The background modes: the three setters in any order, and render.        *)

BackgroundColors == {"#000000", "#336699"}
BackgroundGradients == {"stopsA", "stopsB"}
BackgroundDirections == {"horizontal", "vertical", "diagonal", "undefined"}

NextBackground ==
    \/ \E c \in BackgroundColors : SetBackground(c)
    \/ \E g \in BackgroundGradients : \E d \in BackgroundDirections :
          SetBackgroundGradient(g, d)
    \/ SetBackgroundNone
    \/ AddControl(cToggleN)
    \/ Render

SpecBackground == Init /\ [][NextBackground]_vars

\* the background draw calls of the last render
BackgroundDraws(l) == SelectSeq(l.calls, LAMBDA dr : dr.op = "fillRect")

\* C23: render, coming right after setBackground(color), fills the canvas
\* once with that colour; right after setBackgroundGradient(stops, direction)
\* once with a gradient of those stops in that direction (diagonal when none
\* is given); right after setBackgroundNone it paints no background.  Render
\* and the other operations change none of this, so the same holds for every
\* later render until the next of the three calls.
C23_BackgroundModes ==
    [][/\ last'.op \notin {"setBackground", "setBackgroundGradient", "setBackgroundNone"}
          => options' = options
       /\ last'.op = "render"
         => /\ last.op \notin {"setBackground", "setBackgroundGradient", "setBackgroundNone"}
               => BackgroundDraws(last') = renderBackground(options)
            /\ last.op = "setBackground"
               => BackgroundDraws(last') = <<Draw("fillRect", 0, <<"solid", last.arg>>)>>
            /\ last.op = "setBackgroundGradient"
               => BackgroundDraws(last')
                    = <<Draw("fillRect", 0,
                             <<"gradient", last.arg[1],
                               IF last.arg[2] = "undefined" THEN "diagonal"
                               ELSE last.arg[2]>>)>>
            /\ last.op = "setBackgroundNone" => BackgroundDraws(last') = <<>>]_vars

\* render has filled the canvas with the colour of a setBackground call that
\* followed a gradient and a setBackgroundNone
C23_Witness ==
    /\ last.op = "render"
    /\ options.gradientDirection = "vertical"
    /\ options.noBackground = "false"
    /\ options.backgroundGradient = "null"
    /\ last.calls = <<Draw("fillRect", 0, <<"solid", "#336699">>)>>

----------------------------------------------------------------------------
(* A render pass over a screen with panels, controls, overlays, modals and  *)
(* toasts.                                                                  *)

RenderPool == {cPanel, cToggleN, cMenuH}
RenderImages == {1, 2}
RenderTexts == {1}
RenderArgs == {<< <<>>, sNull >>}
RenderDurations == {3000}

NextRender ==
    \/ \E c \in RenderPool : AddControl(c)
    \/ FocusNext
    \/ \E i \in RenderImages : AddImage(i)
    \/ \E t \in RenderTexts : AddText(t)
    \/ \E a \in RenderArgs : ShowModal(a[1], a[2])
    \/ \E d \in RenderDurations : Len(toasts) < 2 /\ ShowToast(d)
    \/ SetBackgroundNone
    \/ Render

SpecRender == Init /\ [][NextRender]_vars

\* the layer a draw call belongs to
Layer(dr) ==
    CASE dr.op = "fillRect" -> 0
      [] dr.op = "control.draw" -> IF ControlDef(dr.id).kind = "Panel" THEN 1 ELSE 4
      [] dr.op = "drawImage" -> 2
      [] dr.op = "fillText" -> 3
      [] dr.op = "modal.draw" -> 5
      [] dr.op = "toast.draw" -> 6

\* the ids drawn in the given layer, in drawing order
Drawn(draws, layer) ==
    LET InLayer(dr) == Layer(dr) = layer
        sel == SelectSeq(draws, InLayer)
    IN [k \in 1..Len(sel) |-> sel[k].id]

\* sequence s without the elements that fail the test
Keep(s, Test(_)) == SelectSeq(s, Test)

\* C24: the draw calls of a render pass come in the order background,
\* Panels, loaded images, texts, other controls, modals, toasts; each layer
\* holds exactly its objects in their sequence order; Panels are drawn
\* unfocused, a toast with its list position as index, and a control is
\* drawn focused exactly when it is the non-Panel control at the focus index.
C24_RenderOrder ==
    [][last'.op = "render"
         => LET draws == last'.calls
                IsPanel(c) == ControlDef(c).kind = "Panel"
                NotPanel(c) == ControlDef(c).kind # "Panel"
            IN /\ \A i, j \in 1..Len(draws) : i < j => Layer(draws[i]) <= Layer(draws[j])
               /\ Len(Drawn(draws, 0)) = IF options.noBackground = "true" THEN 0 ELSE 1
               /\ Drawn(draws, 1) = Keep(controls, IsPanel)
               /\ Drawn(draws, 2) = Keep(images, imageComplete)
               /\ Drawn(draws, 3) = texts
               /\ Drawn(draws, 4) = Keep(controls, NotPanel)
               /\ Drawn(draws, 5) = modals
               /\ Drawn(draws, 6) = toasts
               /\ \A k \in 1..Len(draws) :
                     /\ draws[k].op = "control.draw"
                        => (draws[k].arg
                              <=> /\ NotPanel(draws[k].id)
                                  /\ focusIndex >= 0 /\ focusIndex < Len(controls)
                                  /\ controls[focusIndex + 1] = draws[k].id)
                     /\ draws[k].op = "toast.draw"
                        => toasts[draws[k].arg + 1] = draws[k].id
               /\ Cardinality({k \in 1..Len(draws) :
                                 draws[k].op = "control.draw" /\ draws[k].arg}) <= 1]_vars

\* a pass has drawn the Panel first although it was added last, then the
\* loaded image, the text, the Menu and the focused Toggle, two modals and
\* two toasts
C24_Witness ==
    /\ last.op = "render"
    /\ controls = <<cMenuH, cToggleN, cPanel>>
    /\ focusIndex = 1
    /\ options.noBackground = "undefined"
    /\ Len(last.calls) = 10
    /\ last.calls[2] = Draw("control.draw", cPanel, FALSE)
    /\ last.calls[3] = Draw("drawImage", 1, 0)
    /\ last.calls[4] = Draw("fillText", 1, 0)
    /\ last.calls[5] = Draw("control.draw", cMenuH, FALSE)
    /\ last.calls[6] = Draw("control.draw", cToggleN, TRUE)
    /\ last.calls[8].op = "modal.draw"
    /\ last.calls[10] = Draw("toast.draw", toasts[2], 1)

\* a pass with the focus index on the Panel has drawn no control as focused,
\* and has skipped the image that is still loading
C24_WitnessPanelFocus ==
    /\ last.op = "render"
    /\ controls = <<cToggleN, cPanel>>
    /\ focusIndex = 1
    /\ images = <<2>>
    /\ last.calls = <<Draw("fillRect", 0, <<"solid", "#1a1a1a">>),
                      Draw("control.draw", cPanel, FALSE),
                      Draw("control.draw", cToggleN, FALSE)>>

----------------------------------------------------------------------------
(* Themes: the theme is changed while controls are added.                   *)

ThemePool == {cPanel, cPanelC, cToggleC, cToggleN}

\* setTheme arguments: two colours; the panel colours taken out of the theme
ThemeChoices == {[controlSurfaceColor |-> "#101010", panelSurfaceColor |-> "#445566"],
                 [panelSurfaceColor |-> "undefined", panelBorderColor |-> "undefined"]}

NextTheme ==
    \/ \E c \in ThemePool : AddControl(c)
    \/ \E th \in ThemeChoices : SetTheme(th)
    \/ Render

SpecTheme == Init /\ [][NextTheme]_vars

\* the theme's value for a style key (textColor is the theme's controlTextColor)
ThemeValue(th, k) == IF k = "textColor" THEN th.controlTextColor ELSE th[k]

\* C25: setTheme replaces exactly the given keys of the theme and changes
\* the options of no control; addControl gives the added control, for every
\* style key its raw options do not hold, the value the theme has at that
\* moment, and changes the options of no other control.
C25_ThemeAtAddControl ==
    [][/\ last'.op = "setTheme"
          => /\ \A k \in DOMAIN theme :
                   theme'[k] = IF k \in DOMAIN last'.arg THEN last'.arg[k] ELSE theme[k]
             /\ DOMAIN theme' = DOMAIN theme \cup DOMAIN last'.arg
             /\ controlOptions' = controlOptions
       /\ last'.op = "addControl"
          => /\ theme' = theme
             /\ \A k \in StyleKeys \ DOMAIN rawOptions(last'.arg) :
                   controlOptions'[last'.arg][k] = ThemeValue(theme, k)
             /\ \A k \in DOMAIN rawOptions(last'.arg) :
                   controlOptions'[last'.arg][k] = rawOptions(last'.arg)[k]
             /\ \A o \in ControlIds \ {last'.arg} : controlOptions'[o] = controlOptions[o]
       /\ last'.op = "render" => controlOptions' = controlOptions /\ theme' = theme]_vars

\* cToggleN was added after setTheme changed controlSurfaceColor and has the
\* new colour, while cToggleC, added before, keeps the old one
C25_Witness ==
    /\ last.op = "addControl" /\ last.arg = cToggleN
    /\ controls = <<cToggleC, cToggleN>>
    /\ theme.controlSurfaceColor = "#101010"
    /\ controlOptions[cToggleN].controlSurfaceColor = "#101010"
    /\ controlOptions[cToggleC].controlSurfaceColor = "#333333"
    /\ controlOptions[cToggleC].controlColor = "#ff00ff"

\* C26 as stated: after addControl every style key of the control's options
\* holds the value the caller supplied, else the theme's value, else the
\* hardcoded default, and none is undefined.
C26_OptionResolution ==
    [][last'.op = "addControl"
         => LET c == last'.arg IN
            \A k \in StyleKeys :
               /\ controlOptions'[c][k] =
                     IF k \in DOMAIN callerOptions(c) THEN callerOptions(c)[k]
                     ELSE IF ThemeValue(theme, k) # "undefined" THEN ThemeValue(theme, k)
                     ELSE HardcodedDefaults[IF k = "textColor" THEN "controlTextColor" ELSE k]
               /\ controlOptions'[c][k] # "undefined"]_vars

\* C27 as stated: a Panel constructed without colour options and added to
\* the manager is drawn with the theme's panelSurfaceColor as fill and its
\* panelBorderColor as border, and with controlSurfaceColor /
\* controlBorderColor only when the theme defines no panel colour.
C27_PanelThemeColours ==
    [][(last'.op = "addControl" /\ last'.arg = cPanel)
         => LET drawn == PanelDraw(controlOptions'[cPanel]) IN
            /\ drawn.fillStyle = IF ~Falsy(theme.panelSurfaceColor)
                                  THEN theme.panelSurfaceColor
                                  ELSE theme.controlSurfaceColor
            /\ drawn.strokeStyle = IF ~Falsy(theme.panelBorderColor)
                                    THEN theme.panelBorderColor
                                    ELSE theme.controlBorderColor]_vars

----------------------------------------------------------------------------
(* Removing what is not there: removeControl and closeModal are called with *)
(* any control and any modal handle, attached or not.                       *)

AbsentPool == {cToggleN, cMenuH}
AbsentArgs == {<< <<>>, sNull >>}
AbsentDurations == {3000}
AbsentTexts == {1}

NextAbsent ==
    \/ \E c \in AbsentPool : AddControl(c)
    \/ \E c \in AbsentPool : RemoveControl(c)
    \/ FocusNext
    \/ \E a \in AbsentArgs : ShowModal(a[1], a[2])
    \/ \E m \in ModalIds : CloseModal(m)
    \/ \E d \in AbsentDurations : Len(toasts) < 2 /\ ShowToast(d)
    \/ \E t \in AbsentTexts : AddText(t)

SpecAbsent == Init /\ [][NextAbsent]_vars

\* C28: removeControl of a control that is not in the control sequence and
\* closeModal of a modal that is not on the modal stack change neither the
\* control sequence, the focus index, the modal stack, the toast list nor
\* the overlay lists.
C28_AbsentNoOp ==
    [][(\/ last'.op = "removeControl" /\ last'.arg \notin Range(controls)
        \/ last'.op = "closeModal" /\ last'.arg \notin Range(modals))
         => /\ controls' = controls /\ focusIndex' = focusIndex
            /\ modals' = modals /\ toasts' = toasts
            /\ texts' = texts /\ images' = images
            /\ cs' = cs /\ ms' = ms /\ timers' = timers]_vars

\* closeModal was called with a modal that is not on the stack while
\* another modal, two controls, a toast and a text were there
C28_Witness ==
    /\ last.op = "closeModal" /\ last.arg \notin Range(modals)
    /\ Len(modals) = 1 /\ Len(controls) = 2 /\ focusIndex = 1
    /\ Len(toasts) = 1 /\ Len(texts) = 1

\* removeControl was called with a control that is not attached while the
\* other control had the focus and a modal was open
C28_WitnessControl ==
    /\ last.op = "removeControl" /\ last.arg = cMenuH
    /\ controls = <<cToggleN>> /\ focusIndex = 0
    /\ Len(modals) = 1

----------------------------------------------------------------------------
(* Construction: the host constructs the manager with or without an input   *)
(* source and then uses it.                                                 *)

ConstructConfigs == {[input |-> i, backgroundColor |-> b] :
                        i \in BOOLEAN, b \in {"undefined", "#202020"}}
ConstructPool == {cToggleN, cMenuH, cPanel}
ConstructKeys == {Key("Tab", FALSE), Key("Enter", FALSE)}
ConstructColors == {"#000000"}

NextConstruct ==
    \/ \E config \in ConstructConfigs : Construct(config)
    \/ /\ Constructed
       /\ \/ \E c \in ConstructPool : AddControl(c)
          \/ \E e \in ConstructKeys : KeyDown(e)
          \/ \E c \in ConstructColors : SetBackground(c)
          \/ SetBackgroundNone
          \/ FocusNext

SpecConstruct == Unconstructed /\ [][NextConstruct]_vars

\* the number of subscriptions to the input source an operation made
Subscriptions(l) == Cardinality({k \in 1..Len(l.calls) : l.calls[k].cb = "subscribe"})

\* C29: a constructor call without an input source in its configuration
\* throws and subscribes to nothing, and no operation is possible on the
\* manager that was not constructed; a constructor call with an input
\* source does not throw and subscribes exactly once; no other operation
\* subscribes.
C29_ConstructSubscribes ==
    [][/\ last'.op = "constructor"
          => IF last'.arg.input
             THEN /\ Subscriptions(last') = 1
                  /\ \A k \in 1..Len(last'.calls) : last'.calls[k].cb # "throw"
                  /\ last'.dispatch = <<>>
             ELSE /\ Subscriptions(last') = 0
                  /\ \E k \in 1..Len(last'.calls) : last'.calls[k].cb = "throw"
       /\ last'.op # "constructor"
          => /\ Subscriptions(last') = 0
             /\ ~(last.op = "constructor" /\ ~last.arg.input)
             /\ last.op # "none"]_vars

\* a construction without input source has thrown
C29_Witness ==
    /\ last.op = "constructor" /\ ~last.arg.input
    /\ last.calls = <<Call("throw", 0, 0)>>

\* a construction with an input source and a background colour has
\* subscribed once
C29_WitnessSubscribed ==
    /\ last.op = "constructor" /\ last.arg.input
    /\ options.backgroundColor = "#202020"
    /\ last.calls = <<Call("subscribe", 0, 0)>>

----------------------------------------------------------------------------
(* The default modal: showModal with an empty button list.                  *)

\* modal m was constructed from an empty button list
IsDefaultModal(m) == ms[m].buttons = <<[label |-> sOK, callback |-> "close"]>>

\* the button callbacks among the calls a key event on modal m made: a
\* caller's callback, or the default button's closure (the this.close() of
\* handleKeyDown itself carries no button index)
ButtonCallbacks(l, m) ==
    SelectSeq(l.calls, LAMBDA c : c.cb = "button" \/ (c.cb = "closeModal" /\ c.index >= 0))

\* the modal showModal makes from an empty button list has exactly one
\* button, labelled OK, and a deferred activation of that button takes the
\* modal off the stack, invoking nothing but the closing
DefaultModalCloses ==
    /\ [](\A l \in {sNull, sOK} :
            LET mo == ModalCtor(<<>>, l)
            IN Len(mo.buttons) = 1 /\ mo.buttons[1].label = <<"O", "K">>
               /\ mo.buttons[1].callback = "close")
    /\ [][/\ (/\ modals # <<>> /\ IsDefaultModal(modals[Len(modals)])
              /\ \/ last'.op = "key" /\ last'.arg.key = "Enter"
                 \/ last'.op = "gamepad" /\ last'.arg = 0)
             => /\ Len(timers') = Len(timers) + 1
                /\ timers'[Len(timers')].on = "modal"
                /\ timers'[Len(timers')].id = modals[Len(modals)]
                /\ modals' = modals
          /\ (last'.op = "timer" /\ last'.arg.on = "modal" /\ IsDefaultModal(last'.arg.id))
             => /\ last'.arg.id \notin Range(modals')
                /\ \A k \in 1..Len(last'.calls) : last'.calls[k].cb = "closeModal"]_vars

\* Escape is pressed while a default modal is on top
EscapeOnDefaultModal == EscapeOnModal /\ IsDefaultModal(modals[Len(modals)])

\* C30 as stated: showModal with an empty button list makes a modal with
\* exactly one button, labelled OK, whose activation closes the modal, and
\* Escape on that modal closes it without invoking any button callback.
C30_Original ==
    /\ DefaultModalCloses
    /\ [][EscapeOnDefaultModal
            => /\ modals[Len(modals)] \notin Range(modals')
               /\ ButtonCallbacks(last', modals[Len(modals)]) = <<>>]_vars

\* C30, amended: as above, but Escape invokes the OK button's callback,
\* which closes the modal, when the modal's escapeButtonLabel is "OK" in
\* any case; with any other or no escapeButtonLabel it invokes no button
\* callback.  In both cases the modal leaves the stack.
C30_DefaultModal ==
    /\ DefaultModalCloses
    /\ [][EscapeOnDefaultModal
            => LET m == modals[Len(modals)] IN
               /\ m \notin Range(modals')
               /\ ButtonCallbacks(last', m) =
                     IF toLowerCase(ms[m].escapeButtonLabel) = <<"o", "k">>
                     THEN <<Call("closeModal", m, 0)>> ELSE <<>>]_vars

\* Escape has closed a default modal constructed without escapeButtonLabel,
\* invoking no button callback, while an activation of OK was pending
C30_Witness ==
    /\ last.op = "key" /\ last.arg.key = "Escape"
    /\ modals = <<>>
    /\ ms[1].buttons = <<[label |-> sOK, callback |-> "close"]>>
    /\ ms[1].escapeButtonLabel = sNull
    /\ Len(timers) = 1
    /\ last.calls = <<Call("closeModal", 1, -1)>>

\* the deferred activation of the OK button has closed the default modal
C30_WitnessActivated ==
    /\ last.op = "timer" /\ last.arg.on = "modal"
    /\ modals = <<>>
    /\ last.calls = <<Call("closeModal", 1, 0), Call("closeModal", 1, 0)>>
    /\ last.arg.item = -1

----------------------------------------------------------------------------
(* Clicks while a modal is shown.                                           *)

\* the point lies outside the modal's box
OutsideModal(p) ==
    ~(/\ p[1] >= ModalBox.x /\ p[1] <= ModalBox.x + ModalBox.width
      /\ p[2] >= ModalBox.y /\ p[2] <= ModalBox.y + ModalBox.height)

\* the point lies on one of the top modal's buttons
OnModalButton(p) ==
    MenuIsOverInteractiveArea(ModalMenuDef(ms[TopModal].buttons), p[1], p[2])

\* C31: a click while a modal is shown closes that modal, both when it lands
\* on one of the modal's buttons and when it lands outside the modal.
C31_ClickClosesModal ==
    [][(/\ modals # <<>>
        /\ last'.op = "click"
        /\ (OnModalButton(last'.arg) \/ OutsideModal(last'.arg)))
       => TopModal \notin Range(modals')]_vars

----------------------------------------------------------------------------
(* Focusing a control directly. The documentation shows                     *)
(* ui.focusControl(playButton) and ui.focusControl(1); the class defines    *)
(* focusNext and focusPrevious only, so the call finds no method and throws *)
(* a TypeError before anything is assigned.                                 *)

ByControl(c) == [by |-> "control", v |-> c]
ByIndex(i) == [by |-> "index", v |-> i]

FocusControl(target) ==
    /\ last' = Last("focusControl", target, <<Call("TypeError", 0, -1)>>, <<>>)
    /\ UNCHANGED <<controls, focusIndex, modals, toasts, onEscape, cs, ms, timers, texts,
                   images, options, theme, controlOptions, cursor>>

FocusControlPool == {cMenuH, cToggle, cToggleN}

FocusControlTargets ==
    {ByControl(c) : c \in FocusControlPool} \cup {ByIndex(i) : i \in 0..(MaxControls - 1)}

NextFocusControl ==
    \/ \E c \in FocusControlPool : AddControl(c)
    \/ \E c \in FocusControlPool : RemoveControl(c)
    \/ FocusNext
    \/ FocusPrevious
    \/ \E t \in FocusControlTargets : FocusControl(t)

SpecFocusControl == Init /\ [][NextFocusControl]_vars

\* the 0-based position the target designates in the control sequence, -1
\* when it designates none
TargetPosition(target) ==
    IF target.by = "control" THEN IndexOf(controls, target.v)
    ELSE IF target.v < Len(controls) THEN target.v ELSE -1

\* C32: focusControl(target), given a control of the control sequence or the
\* index of one, sets the focus index to that control's position.
C32_FocusControl ==
    [][(last'.op = "focusControl" /\ TargetPosition(last'.arg) > -1)
       => focusIndex' = TargetPosition(last'.arg)]_vars

----------------------------------------------------------------------------
(* The press feedback of a Menu: the host's frame loop calls update(dt)     *)
(* again and again while activations arrive by click and gamepad, for the   *)
(* attached cMenuV and for the button menus of modals.                      *)

\* item a of cMenuV
PressPoints == {<<100, 25>>}

PressButtonsIn == {0}

PressTimes == {150, 300}

PressArgs == {<< <<Item(sOK, "user")>>, sNull >>}

NextPress ==
    \/ AddControl(cMenuV)
    \/ \E a \in PressArgs : ShowModal(a[1], a[2])
    \/ \E p \in PressPoints : MouseClick(p)
    \/ \E b \in PressButtonsIn : GamepadButton(b)
    \/ \E dt \in PressTimes : Update(dt)
    \/ Tick(pressedDuration)
    \/ TimerFires

\* the frame loop never stops calling update
SpecPress == Init /\ [][NextPress]_vars /\ WF_vars(\E dt \in PressTimes : Update(dt))

\* the Menus the manager's update reaches: attached Menu controls and the
\* button menus of the modals on the stack
UpdatedMenus ==
    {<<"control", c>> : c \in {c \in Range(controls) : ControlDef(c).kind = "Menu"}}
    \cup {<<"modal", m>> : m \in Range(modals)}

MenuOf(o) == IF o[1] = "control" THEN cs[o[2]] ELSE ms[o[2]].buttonMenu

\* the deferred calls pending for the menu
TimersOf(o) == {k \in 1..Len(timers) : timers[k].on = o[1] /\ timers[k].id = o[2]}

\* the update time accumulated since the menu's latest activation, known
\* while that activation's deferred call is pending
SinceActivation(o) == timers[CHOOSE k \in TimersOf(o) : \A j \in TimersOf(o) : j <= k].upd

\* every update adds dt to pressedTime, and clears pressed at the first
\* update at which the accumulated time reaches pressedDuration
PressAccumulates ==
    \A o \in UpdatedMenus :
        /\ MenuOf(o).pressedTime >= 0 /\ MenuOf(o).pressedTime < pressedDuration
        /\ ~MenuOf(o).pressed => MenuOf(o).pressedTime = 0
        /\ TimersOf(o) # {} =>
              /\ MenuOf(o).pressed <=> SinceActivation(o) < pressedDuration
              /\ MenuOf(o).pressed => MenuOf(o).pressedTime = SinceActivation(o)

\* an activation (a deferred call registered for the menu) restarts the timer
PressRestarts ==
    [][\A o \in UpdatedMenus :
          (Len(timers') > Len(timers) /\ timers'[Len(timers')].on = o[1]
                                      /\ timers'[Len(timers')].id = o[2])
          => (MenuOf(o).pressed /\ MenuOf(o).pressedTime = 0)']_vars

\* with updates going on and no further activation the press ends
PressEnds ==
    \A o \in {<<"control", cMenuV>>} \cup {<<"modal", m>> : m \in ModalIds} :
        (o \in UpdatedMenus /\ MenuOf(o).pressed /\ last.op \notin InputOps)
        ~> (o \notin UpdatedMenus \/ ~MenuOf(o).pressed \/ last.op \in InputOps)

\* C33: for a Menu the manager updates, after an activation sets pressed and
\* pressedTime = 0, each update(dt) adds dt to pressedTime and pressed becomes
\* false, with pressedTime back at 0, at the first update at which the
\* accumulated time reaches pressedDuration; a re-activation restarts the
\* timer; under repeated updates and no further activation pressed eventually
\* becomes false, and pressedTime < pressedDuration after every update.
C33_PressedTimer == []PressAccumulates /\ PressRestarts /\ PressEnds

\* a press has run through updates of 150 ms and 300 ms, and ended
C33_Witness ==
    /\ last.op = "update"
    /\ cMenuV \in Range(controls)
    /\ ~cs[cMenuV].pressed
    /\ \E k \in 1..Len(timers) :
          timers[k].on = "control" /\ timers[k].id = cMenuV /\ timers[k].upd = pressedDuration

\* a re-activation while the press is running
C33_WitnessRestart ==
    /\ last.op \in InputOps
    /\ Cardinality(TimersOf(<<"control", cMenuV>>)) = 2
    /\ cs[cMenuV].pressed /\ cs[cMenuV].pressedTime = 0
    /\ timers[1].upd = 150

----------------------------------------------------------------------------
(* The pointer hint: onMouseMove calls updateCursor, which sets             *)
(* canvas.style.cursor.                                                     *)

\* the circle of radius radioSize = 16 around the centre of an item's radio
\* button, at (bounds.x + padding + radioSize / 2, bounds.y + bounds.height / 2)
RadioIsOverInteractiveArea(d, x, y) ==
    \E i \in 0..(Len(d.items) - 1) :
        LET bounds == RadioGetItemBounds(d, i)
            padding == 10
            dx == x - (bounds.x + padding + 8)
            dy2 == 2 * y - (2 * bounds.y + bounds.height)
        IN 4 * dx * dx + dy2 * dy2 <= 4 * 16 * 16

CarouselIsOverInteractiveArea(d, x, y) ==
    LET arrows == getArrowBounds(d) IN
    containsPointInBounds(x, y, arrows.previous) \/ containsPointInBounds(x, y, arrows.next)

\* the knob, with a margin of 5, or the track; horizontal positions are
\* compared after multiplication by max - min, vertical ones doubled
SliderIsOverInteractiveArea(d, st, x, y) ==
    LET range == d.max - d.min
        trackY2 == 2 * d.y + d.height
        trackX == d.x + d.padding
        trackWidth == d.width - d.padding * 2
        trackHeight == 4
        knobSize == 20
        knobMargin == 5
        knobXr == trackX * range + trackWidth * (st.value - d.min) - (knobSize \div 2) * range
        knobY2 == trackY2 - knobSize
    IN \/ /\ x * range >= knobXr - knobMargin * range
          /\ x * range <= knobXr + (knobSize + knobMargin) * range
          /\ 2 * y >= knobY2 - 2 * knobMargin
          /\ 2 * y <= knobY2 + 2 * (knobSize + knobMargin)
       \/ /\ x >= trackX /\ x <= trackX + trackWidth
          /\ 2 * y >= trackY2 - 4 * trackHeight /\ 2 * y <= trackY2 + 4 * trackHeight

HasIsOverInteractiveArea(kind) == kind \in {"Menu", "Toggle", "Radio", "Carousel", "Slider"}

ControlIsOverInteractiveArea(c, x, y) ==
    LET d == ControlDef(c) IN
    CASE d.kind = "Menu" -> MenuIsOverInteractiveArea(d, x, y)
      [] d.kind = "Toggle" -> ToggleIsOverInteractiveArea(d, x, y)
      [] d.kind = "Radio" -> RadioIsOverInteractiveArea(d, x, y)
      [] d.kind = "Carousel" -> CarouselIsOverInteractiveArea(d, x, y)
      [] d.kind = "Slider" -> SliderIsOverInteractiveArea(d, cs[c], x, y)

\* the loop of updateCursor from index i down to 0: shouldShowPointer
RECURSIVE CursorScan(_, _, _)
CursorScan(i, x, y) ==
    IF i < 0 THEN FALSE
    ELSE LET c == controls[i + 1]
             d == ControlDef(c)
         IN IF d.kind = "Panel" THEN CursorScan(i - 1, x, y)
            ELSE IF HasIsOverInteractiveArea(d.kind)
            THEN IF ControlIsOverInteractiveArea(c, x, y) THEN TRUE
                 ELSE CursorScan(i - 1, x, y)
            ELSE IF containsPoint(d, x, y) THEN TRUE
            ELSE CursorScan(i - 1, x, y)

\* updateCursor scanning the controls whether or not a modal is shown
updateCursor_NoModalCheck(x, y) ==
    IF CursorScan(Len(controls) - 1, x, y) THEN "pointer" ELSE "default"

updateCursor(x, y) ==
    LET shouldShowPointer ==
          IF Len(modals) > 0
          THEN MenuIsOverInteractiveArea(ModalMenuDef(ms[TopModal].buttons), x, y)
          ELSE CursorScan(Len(controls) - 1, x, y)
    IN IF shouldShowPointer THEN "pointer" ELSE "default"

MouseMove(p) ==
    /\ cursor' = updateCursor(p[1], p[2])
    /\ last' = Last("move", p, <<>>, <<>>)
    /\ UNCHANGED <<controls, focusIndex, modals, toasts, onEscape, cs, ms, timers, texts,
                   images, options, theme, controlOptions>>

CursorPool == {cPanel, cMenuH, cToggle, cTextInput}

\* item a of cMenuH, inside cPanel; the gap between the items of cMenuH; the
\* switch of cToggle; item b of cMenuH inside the box of cToggle; cTextInput;
\* the button of a one-button modal, inside cPanel; the empty canvas
CursorPoints ==
    {<<50, 100>>, <<110, 100>>, <<350, 70>>, <<200, 90>>, <<100, 560>>, <<400, 370>>,
     <<600, 500>>}

CursorKeys == {Key("Escape", FALSE)}

CursorArgs == {<< <<Item(sOK, "user")>>, sNull >>}

CursorDurations == {1000}

NextCursor ==
    \/ \E c \in CursorPool : AddControl(c)
    \/ \E a \in CursorArgs : ShowModal(a[1], a[2])
    \/ \E d \in CursorDurations : ShowToast(d)
    \/ \E e \in CursorKeys : KeyDown(e)
    \/ FocusNext
    \/ \E p \in CursorPoints : MouseMove(p)

SpecCursor == Init /\ [][NextCursor]_vars

BoundingBoxContains(d, x, y) ==
    x >= d.x /\ x <= d.x + d.width /\ y >= d.y /\ y <= d.y + d.height

\* a control's interactive region: its precise test if it has one, else its
\* bounding box
InteractiveRegion(c, p) ==
    IF HasIsOverInteractiveArea(ControlDef(c).kind)
    THEN ControlIsOverInteractiveArea(c, p[1], p[2])
    ELSE BoundingBoxContains(ControlDef(c), p[1], p[2])

\* C34: after a pointer-move event the hint is "pointer" exactly when a modal
\* is present and the point is over a button of the top modal, or no modal is
\* present and some non-Panel control's interactive region contains the point;
\* while a modal is present no underlying control makes the hint "pointer";
\* the event changes no control, focus, modal or toast state.
C34_PointerHint ==
    [][last'.op = "move" =>
          /\ cursor' \in {"pointer", "default"}
          /\ cursor' = "pointer" <=>
                IF modals # <<>> THEN OnModalButton(last'.arg)
                ELSE \E c \in Range(controls) :
                        ControlDef(c).kind # "Panel" /\ InteractiveRegion(c, last'.arg)
          /\ UNCHANGED <<controls, focusIndex, modals, toasts, onEscape, cs, ms, timers>>]_vars

\* the pointer moves over item a of the attached cMenuH while a modal is shown
C34_Witness ==
    /\ last.op = "move" /\ last.arg = <<50, 100>>
    /\ modals # <<>> /\ cMenuH \in Range(controls)
    /\ cursor = "default"

\* the pointer over cTextInput, which has no precise test, and over cPanel alone
C34_WitnessBox ==
    /\ last.op = "move" /\ modals = <<>>
    /\ \/ last.arg = <<100, 560>> /\ cursor = "pointer" /\ controls = <<cPanel, cTextInput>>
       \/ last.arg = <<400, 370>> /\ cursor = "default" /\ controls = <<cPanel>>

----------------------------------------------------------------------------
(* Which item's callback a deferred Menu call invokes.                      *)

\* C35: the callback that fires after a Menu activation (click, Enter/Space,
\* gamepad activate) is the callback of the item that was selected at the
\* moment of activation, even if selectedIndex changes before pressedDuration
\* elapses.
C35_ActivatedItemCallback ==
    [][(last'.op = "timer" /\ last'.arg.on = "control")
       => last'.calls = <<Call("item", last'.arg.id, last'.arg.selected)>>]_vars

\* C36: once a modal has been removed from the modal stack, none of its
\* buttons' caller-supplied callbacks is invoked afterwards; activating a
\* button and pressing Escape before pressedDuration elapses invokes no
\* callback after the close.
C36_NoCallbackAfterClose ==
    [][(last'.op = "timer" /\ last'.arg.on = "modal" /\ last'.arg.id \notin Range(modals))
       => \A k \in 1..Len(last'.calls) : last'.calls[k].cb # "button"]_vars

----------------------------------------------------------------------------
(* Removing a control that is not the focused one.                          *)

\* C37: removeControl(c) of a control other than the focused one leaves the
\* same control focused: the control designated by the focus index after the
\* call is the control designated before it, whether c was positioned before
\* or after it in the sequence.
C37_RemoveKeepsFocused ==
    [][(/\ last'.op = "removeControl"
        /\ last'.arg \in Range(controls)
        /\ FocusInRange
        /\ Focused # last'.arg)
       => /\ focusIndex' >= 0 /\ focusIndex' < Len(controls')
          /\ controls'[focusIndex' + 1] = Focused]_vars

----------------------------------------------------------------------------
(* The range of a Slider's value.                                           *)

\* the step delivered an arrow key or a gamepad axis input to the Slider
SliderStepInput ==
    /\ SliderInput
    /\ \/ last'.op = "key" /\ last'.arg.key \in {"ArrowLeft", "ArrowRight"}
       \/ last'.op = "gamepad"

\* C38: for a Slider constructed with min <= value <= max and step > 0, after
\* any sequence of track clicks, ArrowLeft / ArrowRight keys and gamepad axis
\* inputs min <= value <= max, and each key or gamepad input changes the value
\* by exactly one step unless it is clamped at a bound.
C38_SliderRange ==
    /\ [](cs[cSlider].value >= ControlDef(cSlider).min
          /\ cs[cSlider].value <= ControlDef(cSlider).max)
    /\ [][SliderStepInput =>
             LET d == ControlDef(cSlider)
                 old == cs[cSlider].value
                 new == cs'[cSlider].value
             IN \/ new = old - d.step
                \/ new = old + d.step
                \/ new = d.min /\ old - d.step < d.min
                \/ new = d.max /\ old + d.step > d.max]_vars

\* ArrowLeft has taken the value from the upper bound, which only a clamped
\* step or a click right of the track reaches, to one step below it
C38_Witness ==
    /\ last.op = "key" /\ last.arg.key = "ArrowLeft"
    /\ Len(last.dispatch) = 1 /\ last.dispatch[1].id = cSlider
    /\ cs[cSlider].value = ControlDef(cSlider).max - ControlDef(cSlider).step

----------------------------------------------------------------------------
(* Editing a TextInput: cTextInput and cToggleN are added, the focus moves  *)
(* between them, and keys and clicks arrive.                                *)

\* the longest value the keys are allowed to build
MaxTextLen == 3

CtrlKey(k) == [key |-> k, shiftKey |-> FALSE, ctrlKey |-> TRUE]

TextPool == {cTextInput, cToggleN}

TextKeys ==
    {Key("a", FALSE), Key("b", FALSE), CtrlKey("a"), Key("Backspace", FALSE),
     Key("Delete", FALSE), Key("ArrowLeft", FALSE), Key("ArrowRight", FALSE),
     Key("Home", FALSE), Key("End", FALSE), Key("Enter", FALSE), Key("Tab", FALSE)}

\* inside cTextInput; on no control
TextPoints == {<<100, 560>>, <<600, 500>>}

\* e.key.length === 1 && !e.ctrlKey && !e.metaKey
CharacterKey(e) == Len(e.key) = 1 /\ ~Modifier(e, "ctrlKey") /\ ~Modifier(e, "metaKey")

NextText ==
    \/ \E c \in TextPool : AddControl(c)
    \/ \E e \in TextKeys :
          /\ CharacterKey(e) => Len(cs[cTextInput].value) < MaxTextLen
          /\ KeyDown(e)
    \/ \E p \in TextPoints : MouseClick(p)

SpecText == Init /\ [][NextText]_vars

\* the step delivered a key to cTextInput
TextKeyInput ==
    /\ last'.op = "key"
    /\ Len(last'.dispatch) = 1
    /\ last'.dispatch[1].id = cTextInput

\* v with the character k put in front of the character at 0-based position p
InsertedAt(v, p, k) ==
    [i \in 1..(Len(v) + 1) |-> IF i <= p THEN v[i] ELSE IF i = p + 1 THEN k ELSE v[i - 1]]

\* C39: for a TextInput, after any sequence of key events and clicks,
\* 0 <= cursorPos <= length(value); Backspace at position 0 and Delete at the
\* end leave the value unchanged; a character key inserts exactly one
\* character at cursorPos and advances cursorPos by one, so that a character
\* key followed by Backspace restores both value and cursorPos.
C39_TextInputEditing ==
    /\ [](/\ cs[cTextInput].cursorPos >= 0
          /\ cs[cTextInput].cursorPos <= Len(cs[cTextInput].value))
    /\ [](\A k \in {"a", "b"} :
             LET typed == TextInputHandleKeyDown(cs[cTextInput], Key(k, FALSE))
                 back == TextInputHandleKeyDown(typed, Key("Backspace", FALSE))
             IN /\ back.value = cs[cTextInput].value
                /\ back.cursorPos = cs[cTextInput].cursorPos)
    /\ [][TextKeyInput =>
             LET old == cs[cTextInput]
                 new == cs'[cTextInput]
                 e == last'.arg
             IN /\ (e.key = "Backspace" /\ old.cursorPos = 0) => new.value = old.value
                /\ (e.key = "Delete" /\ old.cursorPos = Len(old.value))
                      => new.value = old.value
                /\ CharacterKey(e)
                      => /\ new.value = InsertedAt(old.value, old.cursorPos, e.key)
                         /\ new.cursorPos = old.cursorPos + 1]_vars

\* a character typed in front of the text after the cursor went Home
C39_Witness ==
    /\ last.op = "key" /\ last.arg = Key("b", FALSE)
    /\ cs[cTextInput].value = <<"b", "a", "a">>
    /\ cs[cTextInput].cursorPos = 1

\* Backspace at position 0 of a non-empty value
C39_WitnessBackspace ==
    /\ last.op = "key" /\ last.arg = Key("Backspace", FALSE)
    /\ Len(last.dispatch) = 1 /\ last.dispatch[1].id = cTextInput
    /\ cs[cTextInput].value = <<"a", "b">>
    /\ cs[cTextInput].cursorPos = 0

----------------------------------------------------------------------------
(* Hovering and then clicking: the pointer moves to a point and the click   *)
(* arrives at the same point, over controls whose boxes overlap.            *)

HoverPool == {cMenuH, cToggle, cToggleN}

\* item a of cMenuH; item b of cMenuH inside the box of cToggle; the switch
\* of cToggle inside the box of cToggleN; the switch of cToggleN
HoverPoints == {<<50, 100>>, <<200, 90>>, <<350, 70>>, <<500, 90>>}

NextHover ==
    \/ \E c \in HoverPool : AddControl(c)
    \/ \E p \in HoverPoints : MouseMove(p)
    \/ \E p \in HoverPoints : MouseClick(p)

SpecHover == Init /\ [][NextHover]_vars

\* C40: with no modal present, whenever the pointer hint computed for a point
\* is "pointer", a click at the same point with no state change in between is
\* delivered to a control whose interactive region contains the point,
\* including when control bounding boxes overlap.
C40_HoverClickAgree ==
    [][(/\ modals = <<>>
        /\ last.op = "move" /\ cursor = "pointer"
        /\ last'.op = "click" /\ last'.arg = last.arg)
       => /\ Len(last'.dispatch) = 1
          /\ InteractiveRegion(last'.dispatch[1].id, last'.arg)]_vars

====
